---- MODULE Spec2Model ----
(***************************************************************************)
(* Model of the birdwatcher task executor: the BrowserExecutor that        *)
(* replays execution plans, the InteractiveBrowserAgent loop, the plan     *)
(* cache and the Lambda handler that routes between them.                  *)
(***************************************************************************)
EXTENDS Integers, Sequences, FiniteSets, TLC

VARIABLES entry, cl, twin, sg, cd, mon, be, logs, launched, ex, ag, h, cache, now

vars == <<entry, cl, twin, sg, cd, mon, be, logs, launched, ex, ag, h, cache, now>>

(***************************************************************************)
(* Bounds of the model.                                                    *)
(***************************************************************************)
MaxPlanLen == 2
MaxAgentSteps == 3
MaxInvocations == 2
MaxLLMTurns == 3
MaxClients == 2

MaxClientCalls == 2

MaxTwinCalls == 3

MaxNow == 7

(***************************************************************************)
(* Instructions, URLs and the three task signatures of the code.           *)
(***************************************************************************)
\* An instruction is its words plus what the normalisations act on: capital
\* letters, leading/trailing blanks, runs of inner blanks, punctuation.
Instruction(words, caps, pad, wide, punct) ==
  [words |-> words, caps |-> caps, pad |-> pad, wide |-> wide, punct |-> punct]

\* A URL in its parts; host capitals and the scheme are what URL parsing
\* normalises, slash is a trailing slash of the path, query a query string.
Url(scheme, host, hostCaps, path, slash, query) ==
  [scheme |-> scheme, host |-> host, hostCaps |-> hostCaps, path |-> path,
   slash |-> slash, query |-> query]

NoInstruction == Instruction("none", FALSE, FALSE, FALSE, FALSE)
NoUrl == Url("none", "none", FALSE, "none", FALSE, FALSE)

\* A hash or a formatted key is injective in its input; fn names the function,
\* whose outputs never coincide with those of another (they differ in shape:
\* "host::words", 32 hex digits, 64 hex digits).
Signature(fn, instr, url) == [fn |-> fn, instr |-> instr, url |-> url]

NoSig == Signature("none", NoInstruction, NoUrl)

\* A signature that keeps the capitals of the instruction.
AgentSignatureKeepCase(instr, url) ==
  Signature("agent",
            [instr EXCEPT !.pad = FALSE, !.wide = FALSE],
            [url EXCEPT !.scheme = "none"])

\* handler's createTaskSignature and InteractiveBrowserAgent.createTaskSignature:
\* lower case, trim, blanks to "-"; the URL loses a lower-case http(s)://
\* and keeps everything else.
AgentSignature(instr, url) ==
  Signature("agent",
            [instr EXCEPT !.caps = FALSE, !.pad = FALSE, !.wide = FALSE],
            [url EXCEPT !.scheme = "none"])

\* index.ts generateTaskSignature: md5 of lower-cased trimmed instruction,
\* "_" and the host name of the URL.
GenerateTaskSignature(instr, url) ==
  Signature("md5",
            [instr EXCEPT !.caps = FALSE, !.pad = FALSE],
            [NoUrl EXCEPT !.host = url.host])

\* PlanGenerator.createTaskSignature: sha256 of normalizeInstruction "|"
\* normalizeUrl (protocol, host name, path name; the path name of a URL
\* without path is "/").
CreateTaskSignature(instr, url) ==
  Signature("sha256",
            [instr EXCEPT !.caps = FALSE, !.pad = FALSE, !.wide = FALSE,
                          !.punct = FALSE],
            [url EXCEPT !.hostCaps = FALSE, !.query = FALSE,
                        !.slash = IF url.path = "" THEN TRUE ELSE @])

(***************************************************************************)
(* Plans, steps and criteria.                                              *)
(***************************************************************************)
StepIdTable == <<"step-1", "step-2", "step-3", "step-4", "step-5">>

StepId(i) == StepIdTable[i]

\* plan.validation of the plans handed to executePlan: page expressions.
SuccessShapes == {<<>>, <<"s1">>, <<"s1", "s2">>}
FailureShapes == {<<>>, <<"f1">>}

Outcome == {"truthy", "falsy", "error"}

AttemptOutcome == {"ok", "error", "timeout"}

\* ExecutionResult.error: the fixed words of the message, the step, and what
\* the message text interpolates (detail).
NoError == [message |-> "none", step |-> "none", detail |-> "none"]

NoResult ==
  [planId |-> "none", status |-> "none", extractedData |-> {}, logs |-> 0,
   error |-> NoError, stepsCompleted |-> 0, stepsTotal |-> 0, retryCount |-> 0]

\* types.ts ExecutionStep, restricted to the fields executePlan reads.
\* retries = 0 stands for an absent retries field.
StepShape == [type : {"extract"}, optional : BOOLEAN, retries : {0, 1},
              condition : BOOLEAN]

MkSteps(shapes) ==
  [i \in 1..Len(shapes) |->
     [id |-> StepId(i), type |-> shapes[i].type, optional |-> shapes[i].optional,
      retries |-> shapes[i].retries, condition |-> shapes[i].condition]]

ShapeSeqs(n) == UNION {[1..k -> StepShape] : k \in 1..n}

\* The plans handed directly to executePlan.
ApiPlans ==
  {[id |-> "test-plan", taskSignature |-> NoSig, createdAt |-> "Date",
    steps |-> MkSteps(sh),
    successCriteria |-> sc, failureCriteria |-> fc] :
      sh \in ShapeSeqs(MaxPlanLen), sc \in SuccessShapes, fc \in FailureShapes}

(***************************************************************************)
(* BrowserExecutor: logging, browser life cycle, validation.               *)
(***************************************************************************)
\* BrowserExecutor.log: one ExecutionLog entry. msg is the fixed words of the
\* message, detail what the message interpolates; kw tells whether the text
\* contains one of the selector-issue words shouldRegeneratePlan greps for.
LogDetail(level, msg, stepId, kw, detail) ==
  [level |-> level, msg |-> msg, stepId |-> stepId, kw |-> kw, detail |-> detail]

LogEntry(level, msg, stepId, kw) == LogDetail(level, msg, stepId, kw, "none")

\* The message of a failed attempt carries the browser's error text: a
\* timeout reads "Timeout ...ms exceeded".
OutcomeKw(o) == o = "timeout"

\* The step log line "<type>: <description>" contains the step type.
TypeKw(type) == type \in {"waitForSelector", "waitForElement"}

\* new BrowserExecutor(config): no browser, no context, no page.
NewExecutor(inst) ==
  [inst |-> inst, browser |-> FALSE, context |-> FALSE, page |-> FALSE]

InitFailures == {"none", "launch", "context", "page"}

\* BrowserExecutor.initializeBrowser; f is the call of the browser library
\* that throws ("none": nothing throws).
InitializeBrowser(b, f) ==
  IF b.browser /\ b.context /\ b.page
  THEN [be |-> b, ok |-> TRUE, started |-> 0]
  ELSE CASE f = "launch" -> [be |-> b, ok |-> FALSE, started |-> 0]
         [] f = "context" ->
              [be |-> [b EXCEPT !.browser = TRUE], ok |-> FALSE, started |-> 1]
         [] f = "page" ->
              [be |-> [b EXCEPT !.browser = TRUE, !.context = TRUE],
               ok |-> FALSE, started |-> 1]
         [] OTHER ->
              [be |-> [b EXCEPT !.browser = TRUE, !.context = TRUE, !.page = TRUE],
               ok |-> TRUE, started |-> 1]

\* BrowserExecutor.cleanup: closes the context, closes the browser, drops the
\* page. close() of the browser library is taken to complete.
Cleanup(b) ==
  [be |-> [b EXCEPT !.browser = FALSE, !.context = FALSE, !.page = FALSE],
   closed |-> IF b.browser THEN 1 ELSE 0]

ProseCriteria ==
  {"All steps executed successfully", "Any step failed with error",
   "All steps completed successfully"}

\* page.evaluate("(() => { return <criterion>; })()"): the literals evaluate
\* to themselves, prose is a syntax error, anything else depends on the page.
EvalCriterion(c, ev) ==
  CASE c = "true" -> "truthy"
    [] c = "false" -> "falsy"
    [] c \in ProseCriteria -> "error"
    [] OTHER -> ev[c]

PageCriteria(plan) ==
  {plan.successCriteria[i] : i \in 1..Len(plan.successCriteria)}
    \cup {plan.failureCriteria[i] : i \in 1..Len(plan.failureCriteria)}

PageExprs(plan) == PageCriteria(plan) \ (ProseCriteria \cup {"true", "false"})

RECURSIVE CheckFailure(_, _, _)
\* The second loop of validateExecution, from criterion i on.
CheckFailure(fc, ev, i) ==
  IF i > Len(fc) THEN [success |-> TRUE, reason |-> "none", criterion |-> "none"]
  ELSE IF EvalCriterion(fc[i], ev) = "truthy"
       THEN [success |-> FALSE, reason |-> "Failure criterion triggered",
             criterion |-> fc[i]]
       ELSE CheckFailure(fc, ev, i + 1)

RECURSIVE CheckSuccess(_, _, _, _)
\* The first loop of validateExecution, from criterion i on.
CheckSuccess(sc, fc, ev, i) ==
  IF i > Len(sc) THEN CheckFailure(fc, ev, 1)
  ELSE IF EvalCriterion(sc[i], ev) = "truthy"
       THEN CheckSuccess(sc, fc, ev, i + 1)
       ELSE [success |-> FALSE,
             reason |-> IF EvalCriterion(sc[i], ev) = "error"
                        THEN "Success criterion error"
                        ELSE "Success criterion failed",
             criterion |-> sc[i]]

\* A validateExecution that has lost its second loop.
ValidateSuccessOnly(plan, ev, b) ==
  IF ~b.page
  THEN [success |-> FALSE, reason |-> "No page available for validation",
        criterion |-> "none"]
  ELSE CheckSuccess(plan.successCriteria, <<>>, ev, 1)

\* BrowserExecutor.validateExecution
ValidateExecution(plan, ev, b) ==
  IF ~b.page
  THEN [success |-> FALSE, reason |-> "No page available for validation",
        criterion |-> "none"]
  ELSE CheckSuccess(plan.successCriteria, plan.failureCriteria, ev, 1)

(***************************************************************************)
(* BrowserExecutor.executePlan, one action per suspension point.           *)
(***************************************************************************)
NoPlan ==
  [id |-> "none", taskSignature |-> NoSig, createdAt |-> "none", steps |-> <<>>,
   successCriteria |-> <<>>, failureCriteria |-> <<>>]

\* types.ts ExecutionResult; logs is the executor's own log array (held by
\* reference), named here by the executor instance.
MkResult(planId, status, data, inst, error, done, total, retries) ==
  [planId |-> planId, status |-> status, extractedData |-> data, logs |-> inst,
   error |-> error, stepsCompleted |-> done, stepsTotal |-> total,
   retryCount |-> retries]

IdleFrame ==
  [pc |-> "idle", caller |-> "none", plan |-> NoPlan, skipCleanup |-> FALSE,
   idx |-> 0, stepsCompleted |-> 0, retryCount |-> 0, extractedData |-> {},
   attempts |-> <<>>, ev |-> <<>>, result |-> NoResult]

\* The frame of a call executePlan(plan, {skipCleanup}).
CallFrame(plan, skipCleanup, caller) ==
  [IdleFrame EXCEPT !.pc = "init", !.caller = caller, !.plan = plan,
                    !.skipCleanup = skipCleanup]

\* step.retries || 3
RetriesOrDefault(step) == IF step.retries = 0 THEN 3 ELSE step.retries

\* await this.page?.waitForTimeout(1000 * retryCount)
RetryWait(retryCount) == 1000 * retryCount

ExtractTypes == {"extract", "extractText"}

\* executeStep's effect on extractedData when the action itself succeeds.
StepData(step, data) ==
  IF step.type \in ExtractTypes THEN data \cup {step.id} ELSE data

\* What an attempt of the step's browser action can do: waitForTimeout only
\* ever resolves, every other action can throw or time out.
AttemptOutcomes(step) == IF step.type = "wait" THEN {"ok"} ELSE AttemptOutcome

\* A condition is evaluated on the page only when the step has one.
CondChoices(step) == IF step.condition THEN BOOLEAN ELSE {TRUE}

\* A step loop that never counts a step.
CountStepNever(f) == f

\* stepsCompleted++
CountStep(f) == [f EXCEPT !.stepsCompleted = @ + 1]

\* The for loop moves on to the next step, or leaves the loop.
Advance(f) ==
  IF f.idx < Len(f.plan.steps)
  THEN [f EXCEPT !.pc = "step", !.idx = @ + 1]
  ELSE [f EXCEPT !.pc = "validate"]

\* The status executePlan's outer catch block returns.
CatchStatus == "error"

\* The outer catch block of executePlan: the result of a thrown error.
Caught(f, inst, message, stepId) ==
  [f EXCEPT !.pc = "finally",
            !.result = MkResult(f.plan.id, CatchStatus, f.extractedData, inst,
                                [message |-> message, step |-> stepId,
                                 detail |-> stepId],
                                f.stepsCompleted, Len(f.plan.steps), f.retryCount)]

\* A finally block that never calls cleanup().
RunsCleanupNever(skipCleanup) == FALSE

\* Whether the finally block of executePlan calls cleanup().
RunsCleanup(skipCleanup) == ~skipCleanup

\* executePlan up to the first step: log, initializeBrowser.
ExecInit ==
  /\ ex.pc = "init"
  /\ \E f \in InitFailures :
       LET r == InitializeBrowser(be, f) IN
       /\ be' = r.be
       /\ launched' = launched + r.started
       /\ IF r.ok
          THEN /\ ex' = IF Len(ex.plan.steps) = 0
                        THEN [ex EXCEPT !.pc = "validate"]
                        ELSE [ex EXCEPT !.pc = "step", !.idx = 1]
               /\ logs' = [logs EXCEPT ![be.inst] =
                             Append(@, LogEntry("info", "Executing plan", "none", FALSE))]
          ELSE /\ ex' = Caught(ex, be.inst, "Failed to initialize browser", "none")
               /\ logs' = [logs EXCEPT ![be.inst] = @ \o
                             <<LogEntry("info", "Executing plan", "none", FALSE),
                               LogEntry("error", "Plan execution failed", "none", FALSE)>>]
  /\ UNCHANGED <<entry, mon, cl, twin, sg, cd, ag, h, cache, now>>

\* One iteration of the step loop, up to the wait before a retry.
ExecStepAttempt ==
  /\ ex.pc = "step"
  /\ LET step == ex.plan.steps[ex.idx] IN
     \E cond \in CondChoices(step), o \in AttemptOutcomes(step) :
       /\ cond \/ o = "ok"
       /\ LET att == [step |-> step.id, wait |-> 0,
                      outcome |-> IF cond THEN o ELSE "skipped"]
              f0 == [ex EXCEPT !.attempts = Append(@, att)]
          IN
          IF ~cond
          THEN /\ ex' = Advance(CountStep(f0))
               /\ logs' = [logs EXCEPT ![be.inst] = @ \o
                             <<LogEntry("info", "Step condition not met, skipping", step.id, FALSE),
                               LogEntry("info", "Step done", step.id, TypeKw(step.type))>>]
          ELSE IF o = "ok"
          THEN /\ ex' = Advance(CountStep([f0 EXCEPT
                                             !.extractedData = StepData(step, @)]))
               /\ logs' = [logs EXCEPT ![be.inst] =
                             Append(@, LogEntry("info", "Step done", step.id, TypeKw(step.type)))]
          ELSE IF step.optional
          THEN /\ ex' = Advance(f0)
               /\ logs' = [logs EXCEPT ![be.inst] = @ \o
                             <<LogEntry("error", "Step failed", step.id, OutcomeKw(o)),
                               LogEntry("warn", "Optional step failed, continuing", step.id, FALSE)>>]
          ELSE IF ex.retryCount < RetriesOrDefault(step)
          THEN /\ ex' = [f0 EXCEPT !.pc = "retry", !.retryCount = @ + 1]
               /\ logs' = [logs EXCEPT ![be.inst] = @ \o
                             <<LogEntry("error", "Step failed", step.id, OutcomeKw(o)),
                               LogEntry("info", "Retrying step", step.id, FALSE)>>]
          ELSE /\ ex' = Caught(f0, be.inst, "Step failed after retries", step.id)
               /\ logs' = [logs EXCEPT ![be.inst] = @ \o
                             <<LogEntry("error", "Step failed", step.id, OutcomeKw(o)),
                               LogEntry("error", "Plan execution failed", "none", FALSE)>>]
  /\ UNCHANGED <<entry, mon, cl, twin, sg, cd, be, launched, ag, h, cache, now>>

\* The retry of the current step, after its wait.
ExecStepRetry ==
  /\ ex.pc = "retry"
  /\ LET step == ex.plan.steps[ex.idx] IN
     \E cond \in CondChoices(step), o \in AttemptOutcomes(step) :
       /\ cond \/ o = "ok"
       /\ LET att == [step |-> step.id, wait |-> RetryWait(ex.retryCount),
                      outcome |-> IF cond THEN o ELSE "skipped"]
              f0 == [ex EXCEPT !.attempts = Append(@, att)]
          IN
          IF ~cond
          THEN /\ ex' = Advance(CountStep([f0 EXCEPT !.retryCount = 0]))
               /\ logs' = [logs EXCEPT ![be.inst] =
                             Append(@, LogEntry("info", "Step condition not met, skipping", step.id, FALSE))]
          ELSE IF o = "ok"
          THEN /\ ex' = Advance(CountStep([f0 EXCEPT
                                             !.retryCount = 0,
                                             !.extractedData = StepData(step, @)]))
               /\ logs' = logs
          ELSE /\ ex' = Caught(f0, be.inst, "Step failed after retries", step.id)
               /\ logs' = [logs EXCEPT ![be.inst] = @ \o
                             <<LogEntry("error", "Retry failed", step.id, OutcomeKw(o)),
                               LogEntry("error", "Plan execution failed", "none", FALSE)>>]
  /\ UNCHANGED <<entry, mon, cl, twin, sg, cd, be, launched, ag, h, cache, now>>

\* After the loop: validateExecution on the page as it then is, and the result.
ExecValidate ==
  /\ ex.pc = "validate"
  /\ \E ev \in [PageExprs(ex.plan) -> Outcome] :
       LET v == ValidateExecution(ex.plan, ev, be)
           res == MkResult(ex.plan.id, IF v.success THEN "success" ELSE "failed",
                           ex.extractedData, be.inst,
                           IF v.success THEN NoError
                           ELSE [message |-> "Execution validation failed",
                                 step |-> "validation", detail |-> "none"],
                           ex.stepsCompleted, Len(ex.plan.steps), ex.retryCount)
       IN
       /\ ex' = [ex EXCEPT !.pc = "finally", !.ev = ev, !.result = res]
       /\ logs' = [logs EXCEPT ![be.inst] = @ \o
                     (IF v.success THEN <<>>
                      ELSE <<LogDetail("error", "Validation failed", "none",
                                       FALSE, v.criterion)>>)
                     \o <<LogEntry("info", "Plan finished", "none", FALSE)>>]
  /\ UNCHANGED <<entry, mon, cl, twin, sg, cd, be, launched, ag, h, cache, now>>

\* The finally block, then the return to the caller.
ExecFinally ==
  /\ ex.pc = "finally"
  /\ IF RunsCleanup(ex.skipCleanup)
     THEN /\ be' = Cleanup(be).be
          /\ launched' = launched - Cleanup(be).closed
     ELSE UNCHANGED <<be, launched>>
  /\ ex' = [ex EXCEPT !.pc = "returned"]
  /\ UNCHANGED <<entry, mon, cl, twin, sg, cd, logs, ag, h, cache, now>>

(***************************************************************************)
(* CacheManager over LocalMemoryCache or the two database tables.          *)
(***************************************************************************)
\* defaultTTL, in days.
DefaultTTLDays == 7

\* sha256("cache_" + taskSignature)
GenerateCacheKey(sig) == [cache |-> sig]

Put(f, k, v) == [x \in (DOMAIN f) \cup {k} |-> IF x = k THEN v ELSE f[x]]

\* new CacheManager(): the local map when DATABASE_URL is unset, else the
\* tables execution_plans (task_signature is UNIQUE: one row per
\* taskSignature) and plan_cache (cache_key is UNIQUE: one row per cacheKey).
NewCache(useLocalCache) ==
  [useLocalCache |-> useLocalCache, local |-> <<>>, plans |-> <<>>,
   entries |-> <<>>]

\* What a database statement can do: the local map never fails.
DbOutcomes(c) == IF c.useLocalCache THEN {TRUE} ELSE BOOLEAN

\* A jsonb column that forgets nothing.
ToJsonbKeepingDates(plan) == plan

\* plan: plan as any, into a jsonb column: the value is stored as its JSON
\* text, in which a Date (metadata.createdAt) is an ISO string; reading the
\* column parses the text and leaves the string.
ToJsonb(plan) ==
  [plan EXCEPT !.createdAt = IF @ = "Date" THEN "string" ELSE @]

\* The execution_plans rows a plan_cache row joins with.
JoinedPlans(c, planId) ==
  {sig \in DOMAIN c.plans : c.plans[sig].id = planId}

\* insert into execution_plans ... onConflictDoUpdate(target: taskSignature):
\* a new row with the plan's id, or the old row with the new plan JSON and
\* version + 1.
UpsertPlanRow(c, plan) ==
  LET sig == plan.taskSignature
      row == IF sig \in DOMAIN c.plans
             THEN [c.plans[sig] EXCEPT !.plan = ToJsonb(plan), !.version = @ + 1]
             ELSE [id |-> plan.id, plan |-> ToJsonb(plan), version |-> 1,
                   isActive |-> TRUE]
  IN [c EXCEPT !.plans = Put(@, sig, row)]

\* select id from execution_plans where taskSignature = sig
SelectPlanId(c, sig) ==
  IF sig \in DOMAIN c.plans THEN c.plans[sig].id ELSE "none"

\* A cache entry written with the id of the plan handed in.
UpsertCacheEntryOwnId(c, plan, planId, t) ==
  LET key == GenerateCacheKey(plan.taskSignature)
      ent == [planId |-> plan.id, hitCount |-> 0, lastUsed |-> t,
              expiresAt |-> t + DefaultTTLDays]
  IN [c EXCEPT !.entries = Put(@, key, ent)]

\* insert into plan_cache ... onConflictDoUpdate(target: cacheKey): a new
\* entry with hitCount 0, or the old one with planId, expiresAt and lastUsed
\* set.
UpsertCacheEntry(c, plan, planId, t) ==
  LET key == GenerateCacheKey(plan.taskSignature)
      ent == IF key \in DOMAIN c.entries
             THEN [c.entries[key] EXCEPT !.planId = planId,
                                         !.expiresAt = t + DefaultTTLDays,
                                         !.lastUsed = t]
             ELSE [planId |-> planId, hitCount |-> 0, lastUsed |-> t,
                   expiresAt |-> t + DefaultTTLDays]
  IN [c EXCEPT !.entries = Put(@, key, ent)]

\* select from plan_cache inner join execution_plans where cacheKey = key
\* and expiresAt > now, limit 1: the plan column of the joined row.
SelectCachedPlan(c, sig, t) ==
  LET key == GenerateCacheKey(sig) IN
  IF key \in DOMAIN c.entries /\ c.entries[key].expiresAt > t
       /\ JoinedPlans(c, c.entries[key].planId) # {}
  THEN c.plans[CHOOSE x \in JoinedPlans(c, c.entries[key].planId) : TRUE].plan
  ELSE NoPlan

\* An update of the entry that sets lastUsed only.
TouchCacheEntryNoCount(c, sig, t) ==
  LET key == GenerateCacheKey(sig) IN
  IF key \in DOMAIN c.entries
  THEN [c EXCEPT !.entries[key].lastUsed = t]
  ELSE c

\* update plan_cache set hitCount = hitCount + 1, lastUsed = now where
\* cacheKey = key: one statement, no row when the entry is gone.
TouchCacheEntry(c, sig, t) ==
  LET key == GenerateCacheKey(sig) IN
  IF key \in DOMAIN c.entries
  THEN [c EXCEPT !.entries[key].hitCount = @ + 1, !.entries[key].lastUsed = t]
  ELSE c

\* delete from plan_cache where cacheKey = key
DeleteCacheEntry(c, sig) ==
  LET key == GenerateCacheKey(sig) IN
  [c EXCEPT !.entries = [k \in DOMAIN @ \ {key} |-> @[k]]]

\* CacheManager.getCachedPlan: the select, then the update on a hit; null on
\* a database error.
GetCachedPlan(c, sig, t, dbOk) ==
  IF c.useLocalCache
  THEN [plan |-> IF sig \in DOMAIN c.local THEN c.local[sig] ELSE NoPlan,
        cache |-> c]
  ELSE IF dbOk /\ SelectCachedPlan(c, sig, t) # NoPlan
       THEN [plan |-> SelectCachedPlan(c, sig, t),
             cache |-> TouchCacheEntry(c, sig, t)]
       ELSE [plan |-> NoPlan, cache |-> c]

\* CacheManager.getCachedPlanById
GetCachedPlanById(c, planId, t, dbOk) ==
  IF c.useLocalCache
  THEN LET hits == {sig \in DOMAIN c.local : c.local[sig].id = planId} IN
       [plan |-> IF hits = {} THEN NoPlan ELSE c.local[CHOOSE x \in hits : TRUE],
        cache |-> c]
  ELSE LET rows == {sig \in DOMAIN c.plans :
                      c.plans[sig].id = planId /\ c.plans[sig].isActive}
       IN
       IF dbOk /\ rows # {}
       THEN [plan |-> c.plans[CHOOSE x \in rows : TRUE].plan,
             cache |-> [c EXCEPT !.entries =
                          [k \in DOMAIN @ |->
                             IF @[k].planId = planId
                             THEN [@[k] EXCEPT !.hitCount = @ + 1, !.lastUsed = t]
                             ELSE @[k]]]]
       ELSE [plan |-> NoPlan, cache |-> c]

\* CacheManager.cachePlan: the three statements one after the other; ok =
\* FALSE is the thrown error of a failed write, which leaves the tables as
\* they were.
CachePlan(c, plan, t, dbOk) ==
  IF c.useLocalCache
  THEN [ok |-> TRUE, id |-> plan.id,
        cache |-> [c EXCEPT !.local = Put(@, plan.taskSignature, plan)]]
  ELSE IF ~dbOk THEN [ok |-> FALSE, id |-> "none", cache |-> c]
  ELSE LET c1 == UpsertPlanRow(c, plan)
           actualPlanId == SelectPlanId(c1, plan.taskSignature)
       IN [ok |-> TRUE, id |-> actualPlanId,
           cache |-> UpsertCacheEntry(c1, plan, actualPlanId, t)]

\* CacheManager.invalidateCache
InvalidateCache(c, sig) ==
  IF c.useLocalCache
  THEN [c EXCEPT !.local = [k \in DOMAIN @ \ {sig} |-> @[k]]]
  ELSE DeleteCacheEntry(c, sig)

\* CacheManager.refreshCache: the local map sets the plan under the
\* signature handed in; the database invalidates the signature and caches
\* the plan (under the plan's own signature).  ok = FALSE is the rethrown
\* error of either.
RefreshCache(c, sig, newPlan, t, dbOk) ==
  IF c.useLocalCache
  THEN [ok |-> TRUE, id |-> newPlan.id,
        cache |-> [c EXCEPT !.local = Put(@, sig, newPlan)]]
  ELSE IF ~dbOk THEN [ok |-> FALSE, id |-> "none", cache |-> c]
  ELSE CachePlan(InvalidateCache(c, sig), newPlan, t, TRUE)

(***************************************************************************)
(* InteractiveBrowserAgent.executeInteractively.                           *)
(***************************************************************************)
\* Progress scores are counted in hundredths: 0.1 is 10.
DefaultThreshold == 10
DefaultStagnationLimit == 3
DefaultMaxSteps == 10

NoTask == [instruction |-> NoInstruction, url |-> NoUrl]

\* Plan ids carry a time stamp and a random suffix, so each is new: the k-th
\* plan made during invocation inv (0 before the first) gets its own id.
PlanIdTable ==
  <<"plan-1", "plan-2", "plan-3", "plan-4", "plan-5", "plan-6", "plan-7",
    "plan-8", "plan-9", "plan-10">>

FreshId(inv, k) == PlanIdTable[2 * inv + k]

NoCfg == [maxSteps |-> 0, progressThreshold |-> 0, stagnationLimit |-> 0]

NoAgentResult ==
  [success |-> FALSE, steps |-> <<>>, generatedPlan |-> NoPlan,
   escalatedToHuman |-> FALSE, escalationReason |-> "none",
   extractedData |-> {}, maxStepsReached |-> FALSE, stagnationDetected |-> FALSE]

IdleAgent ==
  [pc |-> "idle", caller |-> "none", task |-> NoTask,
   cfg |-> NoCfg,
   decisions |-> {}, horizon |-> 0,
   stepNumber |-> 0, steps |-> <<>>, pending |-> "none",
   result |-> NoAgentResult]

\* The fallback of getLLMDecision when the model call or its parsing fails:
\* wait(1000), score 0.0, isComplete false.  The field llm is no part of the
\* response: it records how the model call ended ("ok", "transport" for a
\* rejected generateCompletion, "malformed" for content that JSON.parse or
\* the structure check rejects).
FallbackDecision ==
  [llm |-> "transport", type |-> "wait", waitTime |-> 1000, score |-> 0,
   isComplete |-> FALSE, numeric |-> TRUE]

\* A model call that fails has no action and no evaluation to offer.
LLMFailure(kind) ==
  [llm |-> kind, type |-> "none", waitTime |-> 0, score |-> 0,
   isComplete |-> FALSE, numeric |-> FALSE]

\* How a model call may end in a direct run of the agent; numeric tells
\* whether progressEvaluation.score is a number at all, and a score is taken
\* as the model wrote it (150 is 1.5).
ApiDecisions ==
  {LLMFailure("transport"), LLMFailure("malformed")}
    \cup [llm : {"ok"}, type : {"wait", "extract"}, waitTime : {0},
          score : {0, 50, 100, 150}, isComplete : BOOLEAN, numeric : {TRUE}]
    \cup {[llm |-> "ok", type |-> "wait", waitTime |-> 0, score |-> 0,
           isComplete |-> FALSE, numeric |-> FALSE]}

\* A getLLMDecision that lets the failure of the model call through.
GetLLMDecisionRaw(a) == a

\* InteractiveBrowserAgent.getLLMDecision: the parsed response, or the
\* fallback when the call, JSON.parse or the structure check throws.
GetLLMDecision(a) ==
  IF a.llm = "ok" THEN a ELSE [FallbackDecision EXCEPT !.llm = a.llm]

Scores(steps) == [i \in 1..Len(steps) |-> steps[i].score]

SeqMax(q) == CHOOSE x \in {q[i] : i \in 1..Len(q)} : \A j \in 1..Len(q) : q[j] <= x
SeqMin(q) == CHOOSE x \in {q[i] : i \in 1..Len(q)} : \A j \in 1..Len(q) : q[j] >= x

\* A stagnation check over all the scores of the run instead of the last ones.
DetectStagnationAll(scores, cfg) ==
  IF Len(scores) < cfg.stagnationLimit THEN FALSE
  ELSE SeqMax(scores) - SeqMin(scores) < cfg.progressThreshold

\* InteractiveBrowserAgent.detectStagnation
DetectStagnation(scores, cfg) ==
  IF Len(scores) < cfg.stagnationLimit THEN FALSE
  ELSE LET recent == SubSeq(scores, Len(scores) - cfg.stagnationLimit + 1, Len(scores))
       IN SeqMax(recent) - SeqMin(recent) < cfg.progressThreshold

\* The one-step plan executeAction builds for an action.
MiniPlan(d) ==
  [id |-> "interactive-plan", taskSignature |-> NoSig, createdAt |-> "Date",
   steps |-> <<[id |-> "interactive", type |-> d.type, optional |-> FALSE,
                retries |-> 0, condition |-> FALSE]>>,
   successCriteria |-> <<"true">>, failureCriteria |-> <<"false">>]

\* InteractiveBrowserAgent.generatePlanFromSteps
GeneratePlanFromSteps(task, steps, id) ==
  [id |-> id, taskSignature |-> AgentSignature(task.instruction, task.url),
   createdAt |-> "Date",
   steps |-> [i \in 1..Len(steps) |->
                [id |-> StepId(i), type |-> steps[i].type, optional |-> FALSE,
                 retries |-> 0, condition |-> FALSE]],
   successCriteria |-> <<"All steps executed successfully">>,
   failureCriteria |-> <<"Any step failed with error">>]

RawKeyTable == <<"step_1_raw", "step_2_raw", "step_3_raw">>

\* `step_${index + 1}_raw`
RawKey(i) == RawKeyTable[i]

\* The keys of the extractedData executeInteractively collects from its
\* steps: one raw key per successful extraction step (executionResult.result
\* is the executor's extractedData object, which is truthy).  The keys that
\* parseExtractedData derives from the extracted text come on top of these.
CollectData(steps) ==
  {RawKey(i) : i \in {j \in 1..Len(steps) :
                        steps[j].ok /\ steps[j].type \in ExtractTypes}}

\* A promotion of every trace, whatever the outcome of the run.
PromotesAlways(isComplete, escalated) == TRUE

\* if (isComplete && !escalatedToHuman)
Promotes(isComplete, escalated) == isComplete /\ ~escalated

\* A result whose escalation reason puts the step budget before stagnation.
AgentResultMaxFirst(a, steps, isComplete, stagnated, id) ==
  LET maxStepsReached == Len(steps) >= a.cfg.maxSteps /\ ~isComplete
      escalated == stagnated \/ maxStepsReached
  IN [success |-> isComplete, steps |-> steps,
      generatedPlan |-> IF Promotes(isComplete, escalated)
                        THEN GeneratePlanFromSteps(a.task, steps, id)
                        ELSE NoPlan,
      escalatedToHuman |-> escalated,
      escalationReason |-> IF maxStepsReached THEN "Maximum steps reached"
                           ELSE IF stagnated THEN "Task stagnation detected"
                           ELSE "none",
      extractedData |-> CollectData(steps),
      maxStepsReached |-> maxStepsReached,
      stagnationDetected |-> FALSE]

\* The result of the try block once the loop has ended.
AgentResult(a, steps, isComplete, stagnated, id) ==
  LET maxStepsReached == Len(steps) >= a.cfg.maxSteps /\ ~isComplete
      escalated == stagnated \/ maxStepsReached
  IN [success |-> isComplete, steps |-> steps,
      generatedPlan |-> IF Promotes(isComplete, escalated)
                        THEN GeneratePlanFromSteps(a.task, steps, id)
                        ELSE NoPlan,
      escalatedToHuman |-> escalated,
      escalationReason |-> IF stagnated THEN "Task stagnation detected"
                           ELSE IF maxStepsReached THEN "Maximum steps reached"
                           ELSE "none",
      extractedData |-> CollectData(steps),
      maxStepsReached |-> maxStepsReached,
      stagnationDetected |-> FALSE]

\* The result of the catch block of executeInteractively.
AgentCaught(steps) ==
  [success |-> FALSE, steps |-> steps, generatedPlan |-> NoPlan,
   escalatedToHuman |-> TRUE, escalationReason |-> "Unexpected error",
   extractedData |-> CollectData(steps), maxStepsReached |-> FALSE,
   stagnationDetected |-> FALSE]

\* Whether the model's answer ends the run (completion or stagnation).
EndsRun(a, d) ==
  d.isComplete \/ ~d.numeric
    \/ DetectStagnation(Append(Scores(a.steps), d.score), a.cfg)

\* executeInteractively up to the loop: initializeBrowser.
AgentInit ==
  /\ ag.pc = "init"
  /\ \E f \in InitFailures :
       LET r == InitializeBrowser(be, f) IN
       /\ be' = r.be
       /\ launched' = launched + r.started
       /\ ag' = IF ~r.ok
                THEN [ag EXCEPT !.pc = "finally", !.result = AgentCaught(<<>>)]
                ELSE IF 1 <= ag.cfg.maxSteps
                THEN [ag EXCEPT !.pc = "decide", !.stepNumber = 1]
                ELSE [ag EXCEPT !.pc = "finally",
                                !.result = AgentResult(ag, <<>>, FALSE, FALSE,
                                                        FreshId(h.inv, 1))]
  /\ UNCHANGED <<entry, mon, cl, twin, sg, cd, logs, ex, h, cache, now>>

\* One loop iteration up to executeAction: capture the state, ask the model,
\* hand the one-step plan to executePlan with skipCleanup.
AgentDecide ==
  /\ ag.pc = "decide"
  /\ ex.pc = "idle"
  /\ \E a \in ag.decisions :
       LET d == GetLLMDecision(a) IN
       /\ ag.stepNumber >= ag.horizon => EndsRun(ag, d)
       /\ ag' = [ag EXCEPT !.pc = "await", !.pending = d]
       /\ ex' = CallFrame(MiniPlan(d), TRUE, "agent")
  /\ UNCHANGED <<entry, mon, cl, twin, sg, cd, be, logs, launched, h, cache, now>>

\* The rest of the iteration: record the step, then completion, stagnation,
\* the loop condition, and the result once the loop has ended.
AgentRecord ==
  /\ ag.pc = "await"
  /\ ex.pc = "returned"
  /\ LET d == ag.pending
         step == [type |-> d.type, ok |-> ex.result.status = "success",
                  score |-> d.score, isComplete |-> d.isComplete,
                  llm |-> d.llm, waitTime |-> d.waitTime, numeric |-> d.numeric]
         steps == Append(ag.steps, step)
         stagnated == ~d.isComplete /\ DetectStagnation(Scores(steps), ag.cfg)
         res == AgentResult(ag, steps, d.isComplete, stagnated, FreshId(h.inv, 1))
     IN
     /\ ag' = IF ~d.numeric
             THEN [ag EXCEPT !.pc = "finally", !.steps = steps,
                             !.result = AgentCaught(steps)]
             ELSE IF d.isComplete \/ stagnated \/ ag.stepNumber + 1 > ag.cfg.maxSteps
             THEN [ag EXCEPT !.pc = "finally", !.steps = steps, !.result = res]
             ELSE [ag EXCEPT !.pc = "decide", !.steps = steps, !.stepNumber = @ + 1]
  /\ ex' = IdleFrame
  /\ UNCHANGED <<entry, mon, cl, twin, sg, cd, be, logs, launched, h, cache, now>>

\* The finally block of executeInteractively, then the return.
AgentFinally ==
  /\ ag.pc = "finally"
  /\ be' = Cleanup(be).be
  /\ launched' = launched - Cleanup(be).closed
  /\ ag' = [ag EXCEPT !.pc = "returned"]
  /\ UNCHANGED <<entry, mon, cl, twin, sg, cd, logs, ex, h, cache, now>>

(***************************************************************************)
(* ChangeDetector.  A JSON value is a number, null, or an object; undefined *)
(* is what reading an absent key gives.  An array or a string is, to       *)
(* Object.keys and the index operator, an object keyed by its indices.     *)
(***************************************************************************)
Num(n) == [t |-> "number", v |-> n, f |-> <<>>]

Null == [t |-> "null", v |-> 0, f |-> <<>>]

Undefined == [t |-> "undefined", v |-> 0, f |-> <<>>]

Obj(f) == [t |-> "object", v |-> 0, f |-> f]

\* Object.keys(x || {}): the own keys of an object, none for anything else.
ObjectKeys(x) == IF x.t = "object" THEN DOMAIN x.f ELSE {}

\* x?.[key]
Get(x, key) ==
  IF x.t = "object" /\ key \in DOMAIN x.f THEN x.f[key] ELSE Undefined

\* typeof x === 'object' && x !== null
IsObject(x) == x.t = "object"

\* `${prefix}.${key}`: a key holding a dot reads in a path like a key inside
\* a key.
Segments(key) ==
  IF key = "roastingDate.at" THEN <<"roastingDate", "at">> ELSE <<key>>

\* The keys in the order of new Set([...keys1, ...keys2]): an object lists
\* its keys in insertion order, here the order of KeyOrder.
KeyOrder ==
  <<"roastingDate", "roastingDate.at", "at">> \o RawKeyTable
    \o <<"_metadata", "interactiveSteps">>

RECURSIVE OrderedKeys(_, _)
OrderedKeys(S, i) ==
  IF i > Len(KeyOrder) THEN <<>>
  ELSE (IF KeyOrder[i] \in S THEN <<KeyOrder[i]>> ELSE <<>>)
         \o OrderedKeys(S, i + 1)

KeysOfBoth(obj1, obj2) ==
  OrderedKeys(ObjectKeys(obj1), 1)
    \o OrderedKeys(ObjectKeys(obj2) \ ObjectKeys(obj1), 1)

\* The keys of the first value only.
KeysOfFirst(obj1, obj2) == OrderedKeys(ObjectKeys(obj1), 1)

\* The keys compareObjects visits.
ComparedKeys(obj1, obj2) == KeysOfBoth(obj1, obj2)

\* ChangeDetector.compareObjects: the field paths pushed, in order.
RECURSIVE CompareObjects(_, _, _)
RECURSIVE CompareKeys(_, _, _, _)
CompareObjects(obj1, obj2, prefix) ==
  CompareKeys(obj1, obj2, prefix, ComparedKeys(obj1, obj2))

CompareKeys(obj1, obj2, prefix, keys) ==
  IF keys = <<>> THEN <<>>
  ELSE LET key == Head(keys)
           fieldPath == prefix \o Segments(key)
           val1 == Get(obj1, key)
           val2 == Get(obj2, key)
       IN (IF IsObject(val1) /\ IsObject(val2)
           THEN CompareObjects(val1, val2, fieldPath)
           ELSE IF val1 # val2 THEN <<fieldPath>> ELSE <<>>)
            \o CompareKeys(obj1, obj2, prefix, Tail(keys))

\* x of a condition: null, undefined and 0 are falsy.
JsTruthy(x) == x.t = "object" \/ (x.t = "number" /\ x.v # 0)

\* ChangeDetector.hasChanged
HasChanged(previousData, currentData) ==
  LET changedFields == CompareObjects(previousData, currentData, <<>>)
      prevDate == Get(previousData, "roastingDate")
      curDate == Get(currentData, "roastingDate")
  IN [hasChanged |-> Len(changedFields) > 0,
      changedFields |-> changedFields,
      isRestock |-> /\ \E i \in 1..Len(changedFields) :
                         changedFields[i] = <<"roastingDate">>
                    /\ JsTruthy(prevDate) /\ JsTruthy(curDate)
                    /\ prevDate.t = "number" /\ curDate.t = "number"
                    /\ curDate.v > prevDate.v]

NoChangeResult ==
  [hasChanged |-> FALSE, changedFields |-> <<>>, isRestock |-> FALSE]

\* The values hasChanged is applied to: numbers, null, and objects over the
\* keys roastingDate and roastingDate.at whose values are numbers, null or an
\* object with the key at.
MaxNum == 2

JsonLeaves == {Num(n) : n \in 1..MaxNum} \cup {Null}

JsonInner ==
  {Obj(<<>>)} \cup {Obj([k \in {"at"} |-> x]) : x \in JsonLeaves}

JsonFieldValues == JsonLeaves \cup JsonInner \cup {Undefined}

JsonObjects ==
  {Obj([k \in {q \in {"roastingDate", "roastingDate.at"} : g[q] # Undefined}
          |-> g[k]]) :
     g \in [{"roastingDate", "roastingDate.at"} -> JsonFieldValues]}

JsonValues == JsonObjects \cup JsonLeaves

IdleDetector == [pc |-> "new", forth |-> NoChangeResult, back |-> NoChangeResult]

\* hasChanged(previous, current) and hasChanged(current, previous)
DetectBothWays ==
  /\ entry.kind = "detector"
  /\ cd.pc = "new"
  /\ cd' = [pc |-> "compared",
            forth |-> HasChanged(entry.previous, entry.current),
            back |-> HasChanged(entry.current, entry.previous)]
  /\ UNCHANGED <<entry, mon, cl, twin, sg, be, logs, launched, ex, ag, h, cache, now>>

(***************************************************************************)
(* MonitoringService on the table monitoring_data.                         *)
(***************************************************************************)
\* randomUUID() of storeExecutionResult: one per invocation.
ExecutionIdTable == <<"exec-1", "exec-2", "exec-3", "exec-4">>

ExecutionId(inv) == ExecutionIdTable[inv]

NoSample == [taskId |-> "none", extractedData |-> Null, executionId |-> "none"]

\* MonitoringService.storeExecutionData: a row with timestamp new Date(),
\* later than that of every row there is.
StoreExecutionData(rows, data) == Append(rows, data)

\* MonitoringService.getLastExecutionData: where taskId, order by timestamp
\* desc, limit 1.
GetLastExecutionData(rows, taskId) ==
  LET mine == {i \in 1..Len(rows) : rows[i].taskId = taskId} IN
  IF mine = {} THEN NoSample
  ELSE rows[CHOOSE i \in mine : \A j \in mine : j <= i]

\* The outcome of monitoring; baseline (history) is the executionId of the
\* sample currentData was compared with.
NoMonitoring ==
  [ran |-> FALSE, isFirstExecution |-> FALSE, hasChanges |-> FALSE,
   baseline |-> "none"]

\* MonitoringService.processMonitoring
ProcessMonitoring(rows, taskId, currentData, executionId) ==
  LET previousData == GetLastExecutionData(rows, taskId) IN
  IF previousData = NoSample
  THEN [NoMonitoring EXCEPT !.ran = TRUE, !.isFirstExecution = TRUE]
  ELSE [NoMonitoring EXCEPT
          !.ran = TRUE,
          !.hasChanges = HasChanged(previousData.extractedData,
                                    currentData).hasChanged,
          !.baseline = previousData.executionId]

\* What the monitoring block of handler can meet: both statements work, the
\* insert of the sample fails, or the read of the last sample fails.
MonitoringOutcomes == {"ok", "insertFailed", "selectFailed"}

\* if (interactiveResult.success && executionResult.extractedData
\*     && taskInput.taskId && storedExecutionId)
MonitoringCondition(success, data, taskId, storedExecutionId) ==
  success /\ JsTruthy(data) /\ taskId # "none" /\ storedExecutionId # "none"

\* executionResult.extractedData of an interactive run: the data of the run
\* and _metadata.
InteractiveData(r) ==
  Obj([k \in r.extractedData \cup {"_metadata"} |->
         IF k = "_metadata"
         THEN Obj([q \in {"interactiveSteps"} |-> Num(Len(r.steps))])
         ELSE Num(1)])

(***************************************************************************)
(* handler: one invocation of the Lambda entry point at a time.            *)
(***************************************************************************)
InstrA == Instruction("get price", FALSE, FALSE, FALSE, FALSE)
UrlA == Url("https", "shop.example", FALSE, "/item", FALSE, FALSE)

\* Spellings of the task: the instruction with capitals, with blanks around
\* it, with runs of blanks inside; the URL with and without a path and a
\* trailing slash.
SignatureTasks ==
  {[instruction |-> Instruction("get price", c, p, w, FALSE),
    url |-> Url("https", "shop.example", FALSE, path, s, FALSE)] :
     c \in BOOLEAN, p \in BOOLEAN, w \in BOOLEAN, path \in {"", "/item"},
     s \in BOOLEAN}

\* event.options as the caller writes it; "none" and FALSE are absent keys.
NoOptions ==
  [executionMode |-> "none", forceNewPlan |-> FALSE, planOnly |-> FALSE,
   executionOnly |-> FALSE, planId |-> "none"]

\* A planId no plan has.
UnknownPlanId == "plan-unknown"

\* The option bags a caller sends; lastPlanId is the planId of the response
\* to its previous call, which it may hand to an execution-only call.
HandlerOptions(lastPlanId) ==
  {NoOptions, [NoOptions EXCEPT !.executionMode = "auto"],
   [NoOptions EXCEPT !.forceNewPlan = TRUE],
   [NoOptions EXCEPT !.planOnly = TRUE],
   [NoOptions EXCEPT !.planOnly = TRUE, !.executionOnly = TRUE],
   [NoOptions EXCEPT !.executionOnly = TRUE,
                     !.planId = IF lastPlanId = "none" THEN UnknownPlanId
                                ELSE lastPlanId]}

\* An instruction of length 0.
EmptyInstruction == Instruction("", FALSE, FALSE, FALSE, FALSE)

\* The events handler is invoked with: the task with each option bag, and a
\* task without instruction text.
HandlerEvents(lastPlanId) ==
  [taskId : {"none"}, instruction : {InstrA}, url : {UrlA},
   options : HandlerOptions(lastPlanId)]
    \cup {[taskId |-> "none", instruction |-> EmptyInstruction, url |-> UrlA,
           options |-> NoOptions]}

\* The events of a monitored task: the task with its taskId, no options.
MonitorEvents ==
  {[taskId |-> "task-1", instruction |-> InstrA, url |-> UrlA,
    options |-> NoOptions]}

\* Whether TaskInputSchema.parse accepts the event: instruction is
\* z.string().min(1), url is z.string().url().
ValidTaskInput(event) == event.instruction.words # "" /\ event.url.scheme # "none"

\* TaskInputSchema.parse: the options object schema declares forceNewPlan,
\* timeout, screenshot, viewport, userAgent and headers; zod drops every
\* other key of event.options.
ParseTaskInput(event) ==
  [taskId |-> event.taskId, instruction |-> event.instruction, url |-> event.url,
   options |-> [NoOptions EXCEPT !.forceNewPlan = event.options.forceNewPlan]]

\* The answers of the language model to a handler-started agent.
HandlerDecisions ==
  {LLMFailure("transport"),
   [llm |-> "ok", type |-> "extract", waitTime |-> 0, score |-> 100,
    isComplete |-> TRUE, numeric |-> TRUE],
   [llm |-> "ok", type |-> "wait", waitTime |-> 0, score |-> 50,
    isComplete |-> FALSE, numeric |-> TRUE]}

\* The answers of the language model to PlanGenerator.generatePlan: a failure,
\* a mandatory step without criteria, an optional step with a page expression
\* as success criterion and an empty list of failure criteria.
GenOutcomes ==
  {[success |-> FALSE, optional |-> FALSE, criteria |-> "absent"],
   [success |-> TRUE, optional |-> FALSE, criteria |-> "absent"],
   [success |-> TRUE, optional |-> TRUE, criteria |-> "given"]}

\* PlanGenerator.validateStep
ValidateStep(shape) == [shape EXCEPT !.retries = IF @ = 0 THEN 3 ELSE @]

\* PlanGenerator.convertLLMResponseToPlanResponse, for a successful answer.
ConvertLLMResponseToPlanResponse(task, g, id) ==
  [id |-> id, taskSignature |-> CreateTaskSignature(task.instruction, task.url),
   createdAt |-> "Date",
   steps |-> MkSteps(<<ValidateStep([type |-> "extract", optional |-> g.optional,
                                    retries |-> 0, condition |-> FALSE])>>),
   successCriteria |-> IF g.criteria = "absent"
                       THEN <<"All steps completed successfully">>
                       ELSE <<"s1">>,
   failureCriteria |-> IF g.criteria = "absent"
                       THEN <<"Any step failed with error">>
                       ELSE <<>>]

NoResponse ==
  [statusCode |-> 0, mode |-> "none", success |-> FALSE, planId |-> "none",
   status |-> "none", code |-> "none", cacheHit |-> FALSE]

\* index.ts getErrorStatusCode
GetErrorStatusCode(type, code) ==
  IF type = "TaskExecutionError"
  THEN CASE code \in {"VALIDATION_ERROR", "INVALID_INPUT"} -> 400
         [] code = "TASK_NOT_FOUND" -> 404
         [] code = "TIMEOUT" -> 408
         [] OTHER -> 500
  ELSE IF type = "PlanGenerationError" THEN 422 ELSE 500

\* The catch block of handler.
ErrorResponse(type, code) ==
  [NoResponse EXCEPT !.statusCode = GetErrorStatusCode(type, code),
                     !.mode = "error", !.code = code]

NoEvent ==
  [taskId |-> "none", instruction |-> NoInstruction, url |-> NoUrl,
   options |-> NoOptions]

IdleHandler ==
  [pc |-> "idle", inv |-> 0, event |-> NoEvent, taskInput |-> NoEvent,
   executionMode |-> "none", prior |-> NoPlan, dbError |-> FALSE,
   cachedPlan |-> NoPlan, executionPlan |-> NoPlan, newPlan |-> NoPlan,
   executionResult |-> NoResult, response |-> NoResponse, calls |-> <<>>,
   replayStatus |-> "none", pageContent |-> "none",
   prevPlanOnly |-> FALSE, prevPlanId |-> "none",
   stored |-> "none", sampled |-> FALSE, monitoring |-> NoMonitoring]

\* index.ts shouldRegeneratePlan: a selector-issue word in the error message
\* or in a log line (the messages of executePlan's own errors carry none).
ShouldRegeneratePlan(result, lg) ==
  result.logs # 0 /\ \E i \in 1..Len(lg[result.logs]) : lg[result.logs][i].kw

\* The end of handler after browser execution: store the result, answer 200.
Finish(hf) ==
  [hf EXCEPT !.pc = "done", !.calls = Append(@, "storeExecutionResult"),
             !.response = [NoResponse EXCEPT
                             !.statusCode = 200, !.mode = "traditional",
                             !.success = hf.executionResult.status = "success",
                             !.planId = hf.executionPlan.id,
                             !.status = hf.executionResult.status,
                             !.cacheHit = hf.executionPlan # NoPlan]]

\* A handler that ignores the cached plan.
UsesCachedPlanNever(plan, mode) == FALSE

\* if (cachedPlan && (executionMode === 'interactive' || executionMode === 'auto'))
UsesCachedPlan(plan, mode) == plan # NoPlan /\ mode \in {"interactive", "auto"}

\* The plan PlanGenerator has made for the task, as far as the cache still
\* holds it unexpired (NoPlan when it holds none).
GeneratedPlanHeld(c, ti, t) ==
  LET sig == CreateTaskSignature(ti.instruction, ti.url)
      key == GenerateCacheKey(sig)
  IN IF c.useLocalCache
     THEN IF sig \in DOMAIN c.local THEN c.local[sig] ELSE NoPlan
     ELSE IF sig \in DOMAIN c.plans /\ key \in DOMAIN c.entries
               /\ c.entries[key].expiresAt > t
          THEN c.plans[sig].plan
          ELSE NoPlan

\* handler up to its first await of a browser run: parse, mode, cache lookup
\* under the agent's signature, then the cached replay or the agent.
HandlerStart ==
  /\ entry.kind \in {"handler", "monitor"}
  /\ h.pc \in {"idle", "done"}
  /\ h.inv < MaxInvocations
  /\ \E event \in IF entry.kind = "monitor" THEN MonitorEvents
                   ELSE HandlerEvents(h.response.planId),
        dbOk \in DbOutcomes(cache) :
       LET ti == ParseTaskInput(event)
           mode == IF ti.options.executionMode = "none" THEN "interactive"
                   ELSE ti.options.executionMode
           look == GetCachedPlan(cache, AgentSignature(ti.instruction, ti.url),
                                 now, dbOk)
           h0 == [IdleHandler EXCEPT !.inv = h.inv + 1, !.event = event,
                                     !.taskInput = ti, !.executionMode = mode,
                                     !.prior = GeneratedPlanHeld(cache, ti, now),
                                     !.dbError = ~dbOk,
                                     !.prevPlanOnly = h.event.options.planOnly
                                                        /\ ~h.event.options.executionOnly,
                                     !.prevPlanId = h.response.planId]
           h1 == [h0 EXCEPT !.cachedPlan = look.plan,
                            !.calls = <<IF look.plan # NoPlan
                                        THEN "getCachedPlan:hit"
                                        ELSE "getCachedPlan:miss">>]
       IN
       IF ~ValidTaskInput(event)
       THEN /\ dbOk
            /\ h' = [h0 EXCEPT !.pc = "done",
                       !.response = ErrorResponse("ZodError", "UNKNOWN_ERROR")]
            /\ UNCHANGED <<be, logs, ex, ag, cache>>
       ELSE IF ti.options.planOnly /\ ti.options.executionOnly
       THEN /\ h' = [h0 EXCEPT !.pc = "done",
                       !.response = ErrorResponse("TaskExecutionError",
                                                  "INVALID_OPTIONS")]
            /\ UNCHANGED <<be, logs, ex, ag, cache>>
       ELSE IF UsesCachedPlan(look.plan, mode)
       THEN /\ h' = [h1 EXCEPT !.pc = "replay",
                               !.calls = Append(@, "executePlan:cached")]
            /\ be' = NewExecutor(1)
            /\ logs' = [i \in 1..2 |-> <<>>]
            /\ ex' = CallFrame(look.plan, FALSE, "handler")
            /\ cache' = look.cache
            /\ ag' = ag
       ELSE IF mode \in {"interactive", "auto"}
       THEN /\ h' = [h1 EXCEPT !.pc = "interactive",
                               !.calls = Append(@, "executeInteractively")]
            /\ be' = NewExecutor(1)
            /\ logs' = [i \in 1..2 |-> <<>>]
            /\ ag' = [IdleAgent EXCEPT
                        !.pc = "init", !.caller = "handler", !.task = ti,
                        !.cfg = [maxSteps |-> DefaultMaxSteps,
                                 progressThreshold |-> DefaultThreshold,
                                 stagnationLimit |-> DefaultStagnationLimit],
                        !.decisions = HandlerDecisions, !.horizon = MaxLLMTurns]
            /\ cache' = look.cache
            /\ ex' = ex
       ELSE /\ h' = [h1 EXCEPT !.pc = "route"]
            /\ logs' = [i \in 1..2 |-> <<>>]
            /\ cache' = look.cache
            /\ UNCHANGED <<be, ex, ag>>
  /\ UNCHANGED <<entry, mon, cl, twin, sg, cd, launched, now>>

\* After the cached plan has run: keep its result, store it, and go on with
\* the code below the mode branches (the branch has no return).
HandlerAfterReplay ==
  /\ h.pc = "replay"
  /\ ex.pc = "returned"
  /\ h' = [h EXCEPT !.pc = "route", !.executionResult = ex.result,
                    !.replayStatus = ex.result.status,
                    !.executionPlan = h.cachedPlan,
                    !.calls = Append(@, "storeExecutionResult")]
  /\ ex' = IdleFrame
  /\ UNCHANGED <<entry, mon, cl, twin, sg, cd, be, logs, launched, ag, cache, now>>

\* After executeInteractively: cache the promoted plan, convert the result,
\* answer 200 unless the run failed in auto mode.
HandlerAfterInteractive ==
  /\ h.pc = "interactive"
  /\ ag.pc = "returned"
  /\ \E dbOk \in DbOutcomes(cache), storeOk \in BOOLEAN,
        outcome \in MonitoringOutcomes :
       LET r == ag.result
           caching == r.success /\ r.generatedPlan # NoPlan
           put == CachePlan(cache, r.generatedPlan, now, dbOk)
           res == MkResult(IF r.generatedPlan # NoPlan THEN r.generatedPlan.id
                           ELSE "interactive",
                           IF r.success THEN "success" ELSE "failed",
                           r.extractedData, 0,
                           IF r.escalatedToHuman
                           THEN [message |-> r.escalationReason,
                                 step |-> "interactive_execution",
                                 detail |-> "none"]
                           ELSE NoError,
                           Len(r.steps), Len(r.steps), 0)
           h0 == [h EXCEPT !.executionResult = res,
                           !.executionPlan = r.generatedPlan,
                           !.dbError = @ \/ (caching /\ ~dbOk),
                           !.calls = @ \o (IF ~caching THEN <<>>
                                           ELSE IF put.ok THEN <<"cachePlan">>
                                           ELSE <<"cachePlan:error">>)]
           returns == ~(~r.success /\ h.executionMode = "auto")
           storedExecutionId == IF storeOk THEN ExecutionId(h.inv) ELSE "none"
           data == InteractiveData(r)
           monitors == /\ returns
                       /\ MonitoringCondition(r.success, data,
                                              h.taskInput.taskId,
                                              storedExecutionId)
           sample == [taskId |-> h.taskInput.taskId, extractedData |-> data,
                      executionId |-> storedExecutionId]
           rows == IF monitors /\ outcome # "insertFailed"
                   THEN StoreExecutionData(mon, sample) ELSE mon
       IN
       /\ monitors \/ outcome = "ok"
       /\ returns \/ storeOk
       /\ cache' = IF caching THEN put.cache ELSE cache
       /\ mon' = rows
       /\ h' = IF ~returns
               THEN [h0 EXCEPT !.pc = "route"]
               ELSE [h0 EXCEPT !.pc = "done",
                               !.calls = Append(@, "storeExecutionResult"),
                               !.stored = storedExecutionId,
                               !.sampled = rows # mon,
                               !.monitoring =
                                 IF monitors /\ outcome = "ok"
                                 THEN ProcessMonitoring(rows,
                                        h.taskInput.taskId, data,
                                        storedExecutionId)
                                 ELSE NoMonitoring,
                               !.response = [NoResponse EXCEPT
                                               !.statusCode = 200,
                                               !.mode = "interactive",
                                               !.success = r.success,
                                               !.planId = res.planId,
                                               !.status = res.status]]
  /\ ag' = IdleAgent
  /\ UNCHANGED <<entry, cl, twin, sg, cd, be, logs, launched, ex, now>>

\* The code below the mode branches up to browserExecutor.executePlan:
\* plan-only, execution-only, or normal mode (lookup under the md5 signature
\* unless forceNewPlan, generatePlan when there is no plan, cachePlan).
Route(hf, c, t, g, dbOk, dbOk2) ==
  LET ti == hf.taskInput
      gen == ConvertLLMResponseToPlanResponse(ti, g, FreshId(hf.inv, 1))
      put == CachePlan(c, gen, t, dbOk)
      failed(code, type) ==
        [h |-> [hf EXCEPT !.pc = "done", !.response = ErrorResponse(type, code)],
         cache |-> c]
      genFailed ==
        [h |-> [hf EXCEPT !.pc = "done", !.calls = Append(@, "generatePlan"),
                          !.response = ErrorResponse("PlanGenerationError",
                                                     "PLAN_GENERATION_ERROR")],
         cache |-> c]
      execute(plan, c1, calls) ==
        [h |-> [hf EXCEPT !.pc = "execute", !.executionPlan = plan,
                          !.calls = @ \o calls \o <<"executePlan">>],
         cache |-> c1]
      cached(ok) == IF ok THEN <<"cachePlan">> ELSE <<"cachePlan:error">>
  IN
  IF ti.options.planOnly
  THEN IF ~g.success THEN genFailed
       ELSE [h |-> [hf EXCEPT !.pc = "done",
                      !.calls = @ \o <<"generatePlan">> \o cached(put.ok),
                      !.response = [NoResponse EXCEPT !.statusCode = 200,
                                                      !.mode = "plan_only",
                                                      !.success = TRUE,
                                                      !.planId = gen.id]],
             cache |-> put.cache]
  ELSE IF ti.options.executionOnly
  THEN LET look == IF ti.options.planId # "none"
                   THEN GetCachedPlanById(c, ti.options.planId, t, dbOk)
                   ELSE GetCachedPlan(c, GenerateTaskSignature(ti.instruction, ti.url),
                                      t, dbOk)
       IN IF look.plan = NoPlan
          THEN failed(IF ti.options.planId # "none" THEN "PLAN_NOT_FOUND"
                      ELSE "NO_CACHED_PLAN", "TaskExecutionError")
          ELSE execute(look.plan, look.cache, <<>>)
  ELSE LET look == IF ~ti.options.forceNewPlan
                   THEN GetCachedPlan(c, GenerateTaskSignature(ti.instruction, ti.url),
                                      t, dbOk)
                   ELSE [plan |-> hf.executionPlan, cache |-> c]
           put2 == CachePlan(look.cache, gen, t, dbOk2)
       IN IF look.plan # NoPlan THEN execute(look.plan, look.cache, <<>>)
          ELSE IF ~g.success THEN genFailed
          ELSE execute(gen, put2.cache, <<"generatePlan">> \o cached(put2.ok))

HandlerRoute ==
  /\ h.pc = "route"
  /\ \E g \in GenOutcomes, dbOk \in DbOutcomes(cache), dbOk2 \in DbOutcomes(cache) :
       LET r == Route(h, cache, now, g, dbOk, dbOk2) IN
       /\ h' = [r.h EXCEPT !.dbError = @ \/ ~dbOk \/ ~dbOk2]
       /\ cache' = r.cache
       /\ IF r.h.pc = "execute"
          THEN /\ be' = NewExecutor(2)
               /\ ex' = CallFrame(r.h.executionPlan, FALSE, "handler")
          ELSE UNCHANGED <<be, ex>>
  /\ UNCHANGED <<entry, mon, cl, twin, sg, cd, logs, launched, ag, now>>

\* Whether page.evaluate can resolve or throw: only a page can be asked.
PageEvalOutcomes(b) == IF b.page THEN BOOLEAN ELSE {TRUE}

\* BrowserExecutor.getPageContent: null without a page or when evaluate
\* throws, else the text of the page.
GetPageContent(b, evalOk) ==
  IF ~b.page THEN "null" ELSE IF evalOk THEN "pageText" ELSE "null"

\* After browserExecutor.executePlan: regenerate once when the failure looks
\* like a selector issue, else store the result and answer.  pageContent is
\* what getPageContent returned; generatePlan gets pageContent || undefined.
HandlerAfterExecute ==
  /\ h.pc = "execute"
  /\ ex.pc = "returned"
  /\ \E g \in GenOutcomes, evalOk \in PageEvalOutcomes(be) :
       LET res == ex.result
           regen == res.status \in {"failed", "error"}
                      /\ ShouldRegeneratePlan(res, logs)
           newPlan == ConvertLLMResponseToPlanResponse(h.taskInput, g, FreshId(h.inv, 2))
           h0 == [h EXCEPT !.executionResult = res,
                           !.pageContent = IF regen THEN GetPageContent(be, evalOk)
                                           ELSE @,
                           !.calls = @ \o (IF regen THEN <<"generatePlan:regenerate">>
                                           ELSE <<>>)]
       IN
       IF regen /\ g.success
       THEN /\ h' = [h0 EXCEPT !.pc = "reexecute", !.newPlan = newPlan,
                               !.calls = Append(@, "executePlan:regenerated")]
            /\ ex' = CallFrame(newPlan, FALSE, "handler")
       ELSE /\ h' = Finish(h0)
            /\ ex' = IdleFrame
  /\ UNCHANGED <<entry, mon, cl, twin, sg, cd, be, logs, launched, ag, cache, now>>

\* After the regenerated plan has run: adopt and cache it when it succeeded.
HandlerAfterReexecute ==
  /\ h.pc = "reexecute"
  /\ ex.pc = "returned"
  /\ \E dbOk \in DbOutcomes(cache) :
       LET put == CachePlan(cache, h.newPlan, now, dbOk) IN
       IF ex.result.status = "success"
       THEN /\ h' = Finish([h EXCEPT !.executionResult = ex.result,
                                     !.executionPlan = h.newPlan,
                                     !.dbError = @ \/ ~dbOk,
                                     !.calls = Append(@, IF put.ok THEN "cachePlan"
                                                         ELSE "cachePlan:error")])
            /\ cache' = put.cache
       ELSE /\ dbOk
            /\ h' = Finish(h)
            /\ cache' = cache
  /\ ex' = IdleFrame
  /\ UNCHANGED <<entry, mon, cl, twin, sg, cd, be, logs, launched, ag, now>>

\* Time passes between invocations.
Tick ==
  /\ \/ /\ entry.kind \in {"handler", "monitor"}
        /\ h.pc \in {"idle", "done"}
        /\ h.inv < MaxInvocations
     \/ entry.kind = "cache"
  /\ now + DefaultTTLDays <= MaxNow
  /\ now' = now + DefaultTTLDays
  /\ UNCHANGED <<entry, mon, cl, twin, sg, cd, be, logs, launched, ex, ag, h, cache>>

(***************************************************************************)
(* Entry points.                                                           *)
(***************************************************************************)
\* A caller that owns an agent calls executeInteractively on it directly.
ApiExecuteInteractively ==
  /\ entry.kind = "interactive"
  /\ ag.pc = "idle"
  /\ ag' = [IdleAgent EXCEPT !.pc = "init", !.caller = "api", !.task = entry.task,
                             !.cfg = entry.cfg, !.decisions = ApiDecisions,
                             !.horizon = entry.cfg.maxSteps + 1]
  /\ UNCHANGED <<entry, mon, cl, twin, sg, cd, be, logs, launched, ex, h, cache, now>>
\* A caller that owns a BrowserExecutor calls executePlan on it directly.
ApiExecutePlan ==
  /\ entry.kind = "executePlan"
  /\ ex.pc = "idle"
  /\ ex' = CallFrame(entry.plan, entry.skipCleanup, "api")
  /\ UNCHANGED <<entry, mon, cl, twin, sg, cd, be, logs, launched, ag, h, cache, now>>

NoEntry ==
  [kind |-> "none", plan |-> NoPlan, skipCleanup |-> FALSE, cfg |-> NoCfg,
   task |-> NoTask, task2 |-> NoTask, useLocalCache |-> TRUE,
   seeded |-> FALSE, previous |-> Null, current |-> Null]

Entries ==
  {[NoEntry EXCEPT !.kind = "executePlan", !.plan = p, !.skipCleanup = b] :
     p \in ApiPlans, b \in BOOLEAN}
    \cup {[NoEntry EXCEPT !.kind = "interactive",
                          !.task = [instruction |-> InstrA, url |-> UrlA],
                          !.cfg = [maxSteps |-> m,
                                   progressThreshold |-> DefaultThreshold,
                                   stagnationLimit |-> l]] :
             m \in 1..MaxAgentSteps, l \in {2, DefaultStagnationLimit}}
    \cup {[NoEntry EXCEPT !.kind = "handler", !.useLocalCache = b,
                          !.seeded = sd] : b \in BOOLEAN, sd \in BOOLEAN}
    \cup {[NoEntry EXCEPT !.kind = "cache", !.useLocalCache = b,
                          !.seeded = sd] : b \in BOOLEAN, sd \in BOOLEAN}
    \cup {[NoEntry EXCEPT !.kind = "monitor", !.useLocalCache = FALSE]}
    \cup {[NoEntry EXCEPT !.kind = "twin", !.seeded = sd] : sd \in BOOLEAN}
    \cup {[NoEntry EXCEPT !.kind = "signature", !.task = a, !.task2 = b,
                          !.useLocalCache = l] :
             a \in SignatureTasks, b \in SignatureTasks, l \in BOOLEAN}
    \cup {[NoEntry EXCEPT !.kind = "detector", !.previous = a, !.current = b] :
             a \in JsonValues, b \in JsonValues}

\* The steps of an earlier successful interactive run of the task: one
\* extraction that succeeded and completed the task.
SeedSteps ==
  <<[type |-> "extract", ok |-> TRUE, score |-> 100, isComplete |-> TRUE,
     llm |-> "ok", waitTime |-> 0, numeric |-> TRUE]>>

\* The plan that run has promoted.
SeedPlan ==
  GeneratePlanFromSteps([instruction |-> InstrA, url |-> UrlA], SeedSteps,
                        FreshId(0, 1))

\* The plan cache when the first invocation starts: empty, or as that
\* earlier run has left it.
InitialCache(e) ==
  IF e.seeded THEN CachePlan(NewCache(e.useLocalCache), SeedPlan, 0, TRUE).cache
  ELSE NewCache(e.useLocalCache)

(***************************************************************************)
(* Concurrent invocations on one CacheManager backend.  Each Lambda         *)
(* invocation has its own CacheManager; the tables (or, in one process,     *)
(* the static LocalMemoryCache map) are shared.  A call on the database     *)
(* is a sequence of awaited statements, and the statements of concurrent    *)
(* calls interleave; a call on the local map is one synchronous step.       *)
(***************************************************************************)
CacheSig == AgentSignature(InstrA, UrlA)

\* The plan invocation i hands to cachePlan: a promoted plan of the task
\* with an id of its own.
ClientPlan(i) ==
  GeneratePlanFromSteps([instruction |-> InstrA, url |-> UrlA], SeedSteps,
                        PlanIdTable[1 + i])

HitCountOf(c, sig) ==
  IF GenerateCacheKey(sig) \in DOMAIN c.entries
  THEN c.entries[GenerateCacheKey(sig)].hitCount
  ELSE 0

\* A client between calls.  calls counts the calls made; clean, expect,
\* hitBefore and hitAfter are history: whether no other write has run since
\* the client's put began, the plan a put has stored undisturbed when the
\* client's get read, and the entry's hitCount when the get read and when it
\* returned.
IdleClient ==
  [pc |-> "idle", op |-> "none", result |-> "none", plan |-> NoPlan,
   actualPlanId |-> "none", got |-> NoPlan, clean |-> FALSE,
   expect |-> NoPlan, hitBefore |-> 0, hitAfter |-> 0, calls |-> 0]

\* quiet is the plan of the last put that ran undisturbed and has not been
\* followed by a write, with the time it was stored; hits counts the gets
\* that returned a plan; lastHitAt is the time of the last of them.
NoClients ==
  [c |-> [i \in 1..MaxClients |-> IdleClient], quiet |-> NoPlan, quietAt |-> 0,
   hits |-> 0, lastHitAt |-> 0, invalidated |-> FALSE, interleaved |-> FALSE]

CanCall(i) ==
  /\ entry.kind = "cache"
  /\ cl.c[i].pc = "idle"
  /\ cl.c[i].calls < MaxClientCalls

\* A write by client i: the other clients' puts in flight are no longer
\* undisturbed, and no stored plan is.
Disturb(k, i) ==
  [k EXCEPT !.quiet = NoPlan,
            !.interleaved = @ \/ \E j \in 1..MaxClients \ {i} :
                                   k.c[j].pc \in {"put2", "put3"},
            !.c = [j \in 1..MaxClients |->
                     IF j = i THEN @[j] ELSE [@[j] EXCEPT !.clean = FALSE]]]

WithinTTL(k, t) == k.quiet # NoPlan /\ t < k.quietAt + DefaultTTLDays

\* cachePlan, getCachedPlan and invalidateCache on the local map.
ClientLocalCall ==
  /\ cache.useLocalCache
  /\ \E i \in 1..MaxClients :
       /\ CanCall(i)
       /\ \/ LET r == CachePlan(cache, ClientPlan(i), now, TRUE) IN
             /\ cache' = r.cache
             /\ cl' = [Disturb(cl, i) EXCEPT
                         !.quiet = ClientPlan(i), !.quietAt = now,
                         !.c[i] = [IdleClient EXCEPT
                                     !.op = "put", !.result = "ok",
                                     !.plan = ClientPlan(i),
                                     !.actualPlanId = r.id,
                                     !.calls = cl.c[i].calls + 1]]
          \/ LET r == GetCachedPlan(cache, CacheSig, now, TRUE) IN
             /\ cache' = r.cache
             /\ cl' = [cl EXCEPT
                         !.hits = IF r.plan # NoPlan THEN @ + 1 ELSE @,
                         !.lastHitAt = IF r.plan # NoPlan THEN now ELSE @,
                         !.c[i] = [IdleClient EXCEPT
                                     !.op = "get",
                                     !.result = IF r.plan # NoPlan THEN "hit"
                                                ELSE "miss",
                                     !.got = r.plan,
                                     !.expect = IF WithinTTL(cl, now)
                                                THEN cl.quiet ELSE NoPlan,
                                     !.hitBefore = HitCountOf(cache, CacheSig),
                                     !.hitAfter = HitCountOf(r.cache, CacheSig),
                                     !.calls = cl.c[i].calls + 1]]
          \/ /\ cache' = InvalidateCache(cache, CacheSig)
             /\ cl' = [Disturb(cl, i) EXCEPT
                         !.invalidated = TRUE,
                         !.c[i] = [IdleClient EXCEPT
                                     !.op = "invalidate", !.result = "ok",
                                     !.calls = cl.c[i].calls + 1]]
  /\ UNCHANGED <<entry, mon, twin, sg, cd, be, logs, launched, ex, ag, h, now>>

\* A statement that fails: cachePlan and invalidateCache rethrow,
\* getCachedPlan logs and returns null.
StatementFailed(k, i, op) ==
  [k EXCEPT !.c[i] = [IdleClient EXCEPT !.op = op, !.result = "error",
                                        !.calls = IF k.c[i].pc = "idle"
                                                  THEN k.c[i].calls + 1
                                                  ELSE k.c[i].calls]]

\* cachePlan, first statement: the upsert of the execution_plans row.
PutUpsertPlan ==
  /\ ~cache.useLocalCache
  /\ \E i \in 1..MaxClients, dbOk \in BOOLEAN :
       /\ CanCall(i)
       /\ IF dbOk
          THEN /\ cache' = UpsertPlanRow(cache, ClientPlan(i))
               /\ cl' = [Disturb(cl, i) EXCEPT
                           !.c[i] = [IdleClient EXCEPT
                                       !.pc = "put2", !.op = "put",
                                       !.plan = ClientPlan(i), !.clean = TRUE,
                                       !.calls = cl.c[i].calls + 1]]
          ELSE /\ cache' = cache
               /\ cl' = StatementFailed(Disturb(cl, i), i, "put")
  /\ UNCHANGED <<entry, mon, twin, sg, cd, be, logs, launched, ex, ag, h, now>>

\* cachePlan, second statement: the select of the row's id.
PutSelectId ==
  /\ \E i \in 1..MaxClients, dbOk \in BOOLEAN :
       /\ entry.kind = "cache"
       /\ cl.c[i].pc = "put2"
       /\ LET actualPlanId == SelectPlanId(cache, cl.c[i].plan.taskSignature) IN
          cl' = IF dbOk /\ actualPlanId # "none"
                THEN [cl EXCEPT !.c[i].pc = "put3",
                                !.c[i].actualPlanId = actualPlanId]
                ELSE StatementFailed(Disturb(cl, i), i, "put")
  /\ UNCHANGED <<entry, mon, twin, sg, cd, be, logs, launched, ex, ag, h, cache, now>>

\* cachePlan, third statement: the upsert of the plan_cache row.
PutUpsertEntry ==
  /\ \E i \in 1..MaxClients, dbOk \in BOOLEAN :
       /\ entry.kind = "cache"
       /\ cl.c[i].pc = "put3"
       /\ IF dbOk
          THEN /\ cache' = UpsertCacheEntry(cache, cl.c[i].plan,
                                            cl.c[i].actualPlanId, now)
               /\ cl' = [Disturb(cl, i) EXCEPT
                           !.quiet = IF cl.c[i].clean THEN cl.c[i].plan
                                     ELSE NoPlan,
                           !.quietAt = now,
                           !.c[i].pc = "idle", !.c[i].result = "ok"]
          ELSE /\ cache' = cache
               /\ cl' = StatementFailed(Disturb(cl, i), i, "put")
  /\ UNCHANGED <<entry, mon, twin, sg, cd, be, logs, launched, ex, ag, h, now>>

\* getCachedPlan, first statement: the select of the joined row; no row is
\* a miss.
GetSelect ==
  /\ ~cache.useLocalCache
  /\ \E i \in 1..MaxClients, dbOk \in BOOLEAN :
       /\ CanCall(i)
       /\ LET plan == SelectCachedPlan(cache, CacheSig, now)
              c0 == [IdleClient EXCEPT
                       !.op = "get",
                       !.expect = IF WithinTTL(cl, now) THEN cl.quiet
                                  ELSE NoPlan,
                       !.hitBefore = HitCountOf(cache, CacheSig),
                       !.hitAfter = HitCountOf(cache, CacheSig),
                       !.calls = cl.c[i].calls + 1]
          IN
          cl' = IF ~dbOk THEN StatementFailed(cl, i, "get")
                ELSE IF plan = NoPlan
                THEN [cl EXCEPT !.c[i] = [c0 EXCEPT !.result = "miss"]]
                ELSE [cl EXCEPT !.c[i] = [c0 EXCEPT !.pc = "get2",
                                                    !.got = plan]]
  /\ UNCHANGED <<entry, mon, twin, sg, cd, be, logs, launched, ex, ag, h, cache, now>>

\* getCachedPlan, second statement: the update of hitCount and lastUsed,
\* then the return of the plan read by the first.
GetTouch ==
  /\ \E i \in 1..MaxClients, dbOk \in BOOLEAN :
       /\ entry.kind = "cache"
       /\ cl.c[i].pc = "get2"
       /\ IF dbOk
          THEN /\ cache' = TouchCacheEntry(cache, CacheSig, now)
               /\ cl' = [cl EXCEPT
                           !.hits = @ + 1, !.lastHitAt = now,
                           !.c[i].pc = "idle", !.c[i].result = "hit",
                           !.c[i].hitAfter = HitCountOf(cache', CacheSig)]
          ELSE /\ cache' = cache
               /\ cl' = [cl EXCEPT !.c[i].pc = "idle", !.c[i].result = "error",
                                   !.c[i].got = NoPlan]
  /\ UNCHANGED <<entry, mon, twin, sg, cd, be, logs, launched, ex, ag, h, now>>

\* invalidateCache: the delete of the plan_cache row.
InvalidateDelete ==
  /\ ~cache.useLocalCache
  /\ \E i \in 1..MaxClients, dbOk \in BOOLEAN :
       /\ CanCall(i)
       /\ IF dbOk
          THEN /\ cache' = DeleteCacheEntry(cache, CacheSig)
               /\ cl' = [Disturb(cl, i) EXCEPT
                           !.invalidated = TRUE,
                           !.c[i] = [IdleClient EXCEPT
                                       !.op = "invalidate", !.result = "ok",
                                       !.calls = cl.c[i].calls + 1]]
          ELSE /\ cache' = cache
               /\ cl' = StatementFailed(Disturb(cl, i), i, "invalidate")
  /\ UNCHANGED <<entry, mon, twin, sg, cd, be, logs, launched, ex, ag, h, now>>

(***************************************************************************)
(* Two spellings of a task and the signatures the code gives them: the     *)
(* first is run interactively and its plan promoted and cached, the second *)
(* is looked up as handler looks up.                                       *)
(***************************************************************************)
Signatures(task) ==
  [agent |-> AgentSignature(task.instruction, task.url),
   md5 |-> GenerateTaskSignature(task.instruction, task.url),
   sha256 |-> CreateTaskSignature(task.instruction, task.url)]

NoSignatures == [agent |-> NoSig, md5 |-> NoSig, sha256 |-> NoSig]

IdleSignature ==
  [pc |-> "new", of1 |-> NoSignatures, of2 |-> NoSignatures, hit |-> FALSE]

\* The signatures of both spellings.
SignatureCompute ==
  /\ entry.kind = "signature"
  /\ sg.pc = "new"
  /\ sg' = [sg EXCEPT !.pc = "signed", !.of1 = Signatures(entry.task),
                      !.of2 = Signatures(entry.task2)]
  /\ UNCHANGED <<entry, mon, cl, twin, cd, be, logs, launched, ex, ag, h, cache, now>>

\* generatePlanFromSteps for the first spelling and cachePlan of the plan.
SignatureCachePlan ==
  /\ entry.kind = "signature"
  /\ sg.pc = "signed"
  /\ cache' = CachePlan(cache,
                        GeneratePlanFromSteps(entry.task, SeedSteps,
                                              FreshId(0, 1)),
                        now, TRUE).cache
  /\ sg' = [sg EXCEPT !.pc = "cached"]
  /\ UNCHANGED <<entry, mon, cl, twin, cd, be, logs, launched, ex, ag, h, now>>

\* handler's lookup for the second spelling.
SignatureLookup ==
  /\ entry.kind = "signature"
  /\ sg.pc = "cached"
  /\ LET look == GetCachedPlan(cache,
                               AgentSignature(entry.task2.instruction,
                                              entry.task2.url),
                               now, TRUE)
     IN /\ cache' = look.cache
        /\ sg' = [sg EXCEPT !.pc = "looked", !.hit = look.plan # NoPlan]
  /\ UNCHANGED <<entry, mon, cl, twin, cd, be, logs, launched, ex, ag, h, now>>

(***************************************************************************)
(* One orchestrator's sequence of CacheManager calls, made on a database   *)
(* backend and on a local backend side by side, within the TTL.            *)
(***************************************************************************)
\* What a call hands back: the plan of a get (NoPlan is null), the id of a
\* put or refresh, "threw" when the call rejects.
NoOutput == [plan |-> NoPlan, id |-> "none", threw |-> FALSE]

NoTwin ==
  [db |-> NewCache(FALSE), local |-> NewCache(TRUE), calls |-> 0,
   op |-> "none", failed |-> FALSE, outDb |-> NoOutput, outLocal |-> NoOutput]

InitialTwin(e) ==
  IF e.kind = "twin" /\ e.seeded
  THEN [NoTwin EXCEPT !.db = CachePlan(NewCache(FALSE), SeedPlan, 0, TRUE).cache,
                      !.local = CachePlan(NewCache(TRUE), SeedPlan, 0, TRUE).cache]
  ELSE NoTwin

\* The calls of the CacheManager interface on a backend c.
CacheCalls ==
  {[op |-> "put", plan |-> ClientPlan(i), planId |-> "none"] :
     i \in 1..MaxClients}
    \cup {[op |-> "refresh", plan |-> ClientPlan(i), planId |-> "none"] :
            i \in 1..MaxClients}
    \cup {[op |-> "getById", plan |-> NoPlan, planId |-> PlanIdTable[j]] :
            j \in 1..(1 + MaxClients)}
    \cup {[op |-> o, plan |-> NoPlan, planId |-> "none"] :
            o \in {"get", "invalidate"}}

CallCache(c, call, t, dbOk) ==
  CASE call.op = "put" ->
         LET r == CachePlan(c, call.plan, t, dbOk) IN
         [cache |-> r.cache,
          out |-> [NoOutput EXCEPT !.id = r.id, !.threw = ~r.ok]]
    [] call.op = "refresh" ->
         LET r == RefreshCache(c, CacheSig, call.plan, t, dbOk) IN
         [cache |-> r.cache,
          out |-> [NoOutput EXCEPT !.id = r.id, !.threw = ~r.ok]]
    [] call.op = "get" ->
         LET r == GetCachedPlan(c, CacheSig, t, dbOk) IN
         [cache |-> r.cache, out |-> [NoOutput EXCEPT !.plan = r.plan]]
    [] call.op = "getById" ->
         LET r == GetCachedPlanById(c, call.planId, t, dbOk) IN
         [cache |-> r.cache, out |-> [NoOutput EXCEPT !.plan = r.plan]]
    [] OTHER ->
         [cache |-> IF dbOk THEN InvalidateCache(c, CacheSig) ELSE c,
          out |-> [NoOutput EXCEPT !.threw = ~dbOk]]

TwinCall ==
  /\ entry.kind = "twin"
  /\ twin.calls < MaxTwinCalls
  /\ \E call \in CacheCalls, dbOk \in BOOLEAN :
       LET d == CallCache(twin.db, call, now, dbOk)
           l == CallCache(twin.local, call, now, TRUE)
       IN twin' = [db |-> d.cache, local |-> l.cache,
                   calls |-> twin.calls + 1, op |-> call.op,
                   failed |-> twin.failed \/ ~dbOk,
                   outDb |-> d.out, outLocal |-> l.out]
  /\ UNCHANGED <<entry, mon, cl, sg, cd, be, logs, launched, ex, ag, h, cache, now>>

\* The state of a scenario in the runs of another.
NoScenario == <<>>

Init ==
  /\ entry \in Entries
  /\ cl = IF entry.kind = "cache" THEN NoClients ELSE NoScenario
  /\ twin = IF entry.kind = "twin" THEN InitialTwin(entry) ELSE NoScenario
  /\ sg = IF entry.kind = "signature" THEN IdleSignature ELSE NoScenario
  /\ cd = IF entry.kind = "detector" THEN IdleDetector ELSE NoScenario
  /\ mon = <<>>
  /\ be = NewExecutor(1)
  /\ logs = [i \in 1..2 |-> <<>>]
  /\ launched = 0
  /\ ex = IdleFrame
  /\ ag = IdleAgent
  /\ h = IdleHandler
  /\ cache = InitialCache(entry)
  /\ now = 0

Next ==
  \/ ApiExecutePlan
  \/ ApiExecuteInteractively
  \/ AgentInit
  \/ AgentDecide
  \/ AgentRecord
  \/ AgentFinally
  \/ ExecInit
  \/ ExecStepAttempt
  \/ ExecStepRetry
  \/ ExecValidate
  \/ ExecFinally
  \/ HandlerStart
  \/ HandlerAfterReplay
  \/ HandlerAfterInteractive
  \/ HandlerRoute
  \/ HandlerAfterExecute
  \/ HandlerAfterReexecute
  \/ ClientLocalCall
  \/ PutUpsertPlan
  \/ PutSelectId
  \/ PutUpsertEntry
  \/ GetSelect
  \/ GetTouch
  \/ InvalidateDelete
  \/ TwinCall
  \/ SignatureCompute
  \/ SignatureCachePlan
  \/ SignatureLookup
  \/ DetectBothWays
  \/ Tick

Spec == Init /\ [][Next]_vars

(***************************************************************************)
(* Properties.                                                             *)
(***************************************************************************)
Calls == {h.calls[i] : i \in 1..Len(h.calls)}

Released == launched = 0 /\ ~be.browser /\ ~be.context /\ ~be.page

StepOf(plan, id) == plan.steps[CHOOSE i \in 1..Len(plan.steps) : plan.steps[i].id = id]

LastAttempt(f) == f.attempts[Len(f.attempts)]

\* The run of f has returned because a mandatory step failed for good.
MandatoryFailed(f) ==
  /\ f.pc = "returned"
  /\ Len(f.attempts) > 0
  /\ LastAttempt(f).outcome \in {"error", "timeout"}
  /\ ~StepOf(f.plan, LastAttempt(f).step).optional

\* The re-attempts of step id in the run of f, in order.
RetriesOf(f, id) ==
  SelectSeq(f.attempts, LAMBDA a : a.step = id /\ a.wait > 0)

\* The number of optional steps that failed in the run of f.
FailedOptional(f) ==
  Cardinality({i \in 1..Len(f.attempts) :
                 /\ f.attempts[i].outcome \in {"error", "timeout"}
                 /\ StepOf(f.plan, f.attempts[i].step).optional})

\* The run of f got as far as validateExecution.
Validated(f) ==
  f.pc \in {"finally", "returned"} /\ f.result.status \in {"success", "failed"}

Truthy(c, ev) == EvalCriterion(c, ev) = "truthy"

AllSuccessTruthy(f) ==
  \A i \in 1..Len(f.plan.successCriteria) : Truthy(f.plan.successCriteria[i], f.ev)

NoFailureTruthy(f) ==
  \A i \in 1..Len(f.plan.failureCriteria) : ~Truthy(f.plan.failureCriteria[i], f.ev)

\* The first criterion, in evaluation order, that speaks against success.
FirstViolated(f) ==
  LET sc == f.plan.successCriteria
      fc == f.plan.failureCriteria
      badS == {i \in 1..Len(sc) : ~Truthy(sc[i], f.ev)}
      badF == {i \in 1..Len(fc) : Truthy(fc[i], f.ev)}
  IN IF badS # {} THEN sc[CHOOSE i \in badS : \A j \in badS : i <= j]
     ELSE fc[CHOOSE i \in badF : \A j \in badF : i <= j]

\* C1: once handler has found a cached plan under the task's signature and
\* the execution mode is interactive or auto, it runs that plan with a
\* BrowserExecutor and the interactive agent is not started in the invocation.
C1_CachedPlanReplayed ==
  (h.pc # "idle" /\ h.cachedPlan # NoPlan
     /\ h.executionMode \in {"interactive", "auto"})
    => /\ "executePlan:cached" \in Calls
       /\ "executeInteractively" \notin Calls
       /\ ag.pc = "idle"
       /\ h.pc = "replay" => (ex.caller = "handler" /\ ex.plan = h.cachedPlan)

\* C1 witness: an invocation in interactive mode that found a cached plan has
\* replayed it and answered.
C1_Witness ==
  /\ h.pc = "done"
  /\ h.cachedPlan # NoPlan
  /\ h.executionMode = "interactive"
  /\ "executePlan:cached" \in Calls
  /\ h.response.statusCode = 200

\* C2 as stated: in an invocation that replays a cached plan whose result
\* gives no cause for regeneration, the plan generator is not called.
C2_NoGeneratorAfterReplay ==
  (/\ h.pc = "execute"
   /\ "executePlan:cached" \in Calls
   /\ ~(h.executionResult.status \in {"failed", "error"}
          /\ ShouldRegeneratePlan(h.executionResult, logs)))
    => "generatePlan" \notin Calls

\* C3 as stated: when the cache holds, unexpired, a plan that PlanGenerator
\* made for this instruction and url, an invocation without forceNewPlan and
\* without backend errors executes that plan and generates none.
C3_GeneratedPlanFound ==
  (/\ h.pc = "execute"
   /\ h.prior # NoPlan
   /\ ~h.taskInput.options.forceNewPlan
   /\ ~h.dbError)
    => /\ h.executionPlan = h.prior
       /\ "generatePlan" \notin Calls

C5_MandatoryFailureIsFailed ==
  MandatoryFailed(ex)
    => /\ ex.result.status = "failed"
       /\ ex.result.error.step = LastAttempt(ex).step
       /\ ex.plan.steps[ex.idx].id = LastAttempt(ex).step

\* C6 as stated: a mandatory step is declared failed only after step.retries
\* (default 3) re-attempts, the k-th of them after a wait of 1000 * k ms.
C6_AllRetriesUsed ==
  MandatoryFailed(ex)
    => LET id == LastAttempt(ex).step
           re == RetriesOf(ex, id)
       IN /\ Len(re) = RetriesOrDefault(StepOf(ex.plan, id))
          /\ \A k \in 1..Len(re) : re[k].wait = 1000 * k

\* C7 as stated: a plan execution that returns status success has completed
\* every step of the plan.
C7_SuccessCompletesAll ==
  (ex.pc = "returned" /\ ex.result.status = "success")
    => ex.result.stepsCompleted = ex.result.stepsTotal

C9_ValidationDecides ==
  Validated(ex)
    => /\ ex.result.status = "success" <=> (AllSuccessTruthy(ex) /\ NoFailureTruthy(ex))
       /\ ex.result.status = "failed"
            => /\ ex.result.error.message = "Execution validation failed"
               /\ ex.result.error.step = "validation"
               /\ ex.result.error.detail = "none"
               /\ LET lg == logs[be.inst] IN
                  /\ lg[Len(lg) - 1].msg = "Validation failed"
                  /\ lg[Len(lg) - 1].detail = FirstViolated(ex)

\* C9 witness: an execution whose success criteria all held has returned
\* failed because a failure criterion was truthy.
C9_Witness ==
  /\ Validated(ex)
  /\ ex.pc = "returned"
  /\ Len(ex.plan.successCriteria) > 0
  /\ AllSuccessTruthy(ex)
  /\ ~NoFailureTruthy(ex)
  /\ ex.result.status = "failed"

\* C9 as stated: the error message of a failed validation names the first
\* violated criterion.
C9_MessageNamesCriterion ==
  (Validated(ex) /\ ex.result.status = "failed")
    => ex.result.error.detail = FirstViolated(ex)

\* C10 as stated: a plan execution that ends because the active step ran out
\* of time returns status timeout.
C10_TimeoutStatus ==
  (MandatoryFailed(ex) /\ LastAttempt(ex).outcome = "timeout")
    => ex.result.status = "timeout"

(***************************************************************************)
(* Interactive runs.                                                       *)
(***************************************************************************)
LastStep(a) == a.steps[Len(a.steps)]

\* The agent is between two iterations of its loop or past the loop.
BetweenSteps(a) == a.pc \in {"decide", "await", "finally", "returned"}

Ended(a) == a.pc \in {"finally", "returned"}

\* The last stagnationLimit scores exist and any two of them differ by less
\* than progressThreshold.
StagnantWindow(a) ==
  /\ Len(a.steps) >= a.cfg.stagnationLimit
  /\ \A i, j \in (Len(a.steps) - a.cfg.stagnationLimit + 1)..Len(a.steps) :
       a.steps[i].score - a.steps[j].score < a.cfg.progressThreshold

StagnationFired(a) ==
  /\ Ended(a)
  /\ a.result.escalatedToHuman
  /\ a.result.escalationReason = "Task stagnation detected"

\* The loop was left by an exception: the browser did not start, or the last
\* recorded step has a score that is no number (toFixed throws).
LoopThrew(a) == Len(a.steps) = 0 \/ ~LastStep(a).numeric

\* C11 (amended): after a recorded step that does not complete the task,
\* stagnation escalation fires if and only if at least stagnationLimit scores
\* are recorded and the last stagnationLimit of them span less than
\* progressThreshold; a step that completes the task ends the run before the
\* stagnation check.
C11_StagnationFiresOnWindow ==
  (BetweenSteps(ag) /\ Len(ag.steps) >= 1 /\ LastStep(ag).numeric)
    => (StagnationFired(ag) <=> (~LastStep(ag).isComplete /\ StagnantWindow(ag)))

\* C11 witness: stagnation fired on the last scores of a run whose earlier
\* scores moved.
C11_Witness ==
  /\ ag.pc = "returned"
  /\ StagnationFired(ag)
  /\ Len(ag.steps) > ag.cfg.stagnationLimit
  /\ ag.steps[1].score # LastStep(ag).score

\* C11 as stated: stagnation escalation fires after a recorded step if and
\* only if the last stagnationLimit scores span less than progressThreshold.
C11_StagnationIffWindow ==
  (BetweenSteps(ag) /\ Len(ag.steps) >= 1 /\ LastStep(ag).numeric)
    => (StagnationFired(ag) <=> StagnantWindow(ag))

\* C12: an interactive run that returns without success is escalated with a
\* reason: the exception's when the loop threw, else stagnation when the last
\* step stagnated, else max steps reached.
C12_FailureEscalates ==
  (ag.pc = "returned" /\ ~ag.result.success)
    => /\ ag.result.escalatedToHuman
       /\ ag.result.escalationReason =
            (IF LoopThrew(ag) THEN "Unexpected error"
             ELSE IF StagnantWindow(ag) THEN "Task stagnation detected"
             ELSE "Maximum steps reached")
       /\ (~LoopThrew(ag) /\ ~StagnantWindow(ag))
            => Len(ag.steps) >= ag.cfg.maxSteps

\* C12 witness: a run that used its whole step budget and stagnated on the
\* last step, so that both reasons apply.
C12_Witness ==
  /\ ag.pc = "returned"
  /\ ~ag.result.success
  /\ Len(ag.steps) = ag.cfg.maxSteps
  /\ ag.result.maxStepsReached
  /\ ag.result.escalationReason = "Task stagnation detected"

\* Every model call of the run so far has failed, and there was at least one.
AllCallsFailed(a) ==
  Len(a.steps) >= 1 /\ \A i \in 1..Len(a.steps) : a.steps[i].llm # "ok"

IsFallbackStep(st) ==
  st.type = "wait" /\ st.waitTime = 1000 /\ st.score = 0 /\ ~st.isComplete

\* C13 (amended): when every model call of an interactive run fails, each
\* step is the fallback wait(1000) with score 0 and isComplete false, and the
\* run ends escalated without success: by stagnation after stagnationLimit
\* steps when maxSteps >= stagnationLimit and progressThreshold > 0, else by
\* max steps reached after maxSteps steps.
C13_FailingModelEscalates ==
  (BetweenSteps(ag) /\ AllCallsFailed(ag))
    => /\ \A i \in 1..Len(ag.steps) : IsFallbackStep(ag.steps[i])
       /\ ag.pc = "returned"
            => /\ ~ag.result.success
               /\ ag.result.escalatedToHuman
               /\ IF ag.cfg.maxSteps >= ag.cfg.stagnationLimit
                       /\ ag.cfg.progressThreshold > 0
                  THEN /\ ag.result.escalationReason = "Task stagnation detected"
                       /\ Len(ag.steps) = ag.cfg.stagnationLimit
                  ELSE /\ ag.result.escalationReason = "Maximum steps reached"
                       /\ Len(ag.steps) = ag.cfg.maxSteps

\* C13 witness: a run of three failed model calls, a transport error among
\* them and a malformed response, that ended with stagnation.
C13_Witness ==
  /\ ag.pc = "returned"
  /\ AllCallsFailed(ag)
  /\ Len(ag.steps) = 3
  /\ \E i, j \in 1..3 : ag.steps[i].llm = "transport" /\ ag.steps[j].llm = "malformed"
  /\ ag.result.escalationReason = "Task stagnation detected"

\* C13 as stated: a run all of whose model calls fail ends with
\* stagnation-based escalation.
C13_FailingModelStagnates ==
  (ag.pc = "returned" /\ AllCallsFailed(ag))
    => ag.result.escalationReason = "Task stagnation detected"

\* C14 as stated: every recorded step has a progress score between 0 and 1
\* (0 and 100 hundredths), whatever score the model returned.
C14_ScoreInUnitInterval ==
  \A i \in 1..Len(ag.steps) :
    ag.steps[i].numeric => (0 <= ag.steps[i].score /\ ag.steps[i].score <= 100)

InteractiveInvocationDone ==
  h.pc = "done" /\ "executeInteractively" \in Calls /\ h.response.mode = "interactive"

CacheWritten == "cachePlan" \in Calls \/ "cachePlan:error" \in Calls

\* C15: an interactive run returns a generatedPlan exactly when it ended with
\* success and without escalation, the plan having one step per recorded
\* step; a handler invocation whose interactive run failed or escalated
\* answers with no plan and has made no cache write.
C15_PromotionOnlyOnSuccess ==
  /\ Ended(ag)
       => /\ (ag.result.generatedPlan # NoPlan)
                <=> (ag.result.success /\ ~ag.result.escalatedToHuman)
          /\ ag.result.generatedPlan # NoPlan
                => /\ Len(ag.result.generatedPlan.steps) = Len(ag.steps)
                   /\ LastStep(ag).isComplete
  /\ (InteractiveInvocationDone /\ CacheWritten)
       => /\ h.response.success
          /\ h.executionResult.error = NoError
          /\ h.executionPlan # NoPlan
  /\ (InteractiveInvocationDone /\ ~h.response.success)
       => h.executionPlan = NoPlan

\* C15 witness: a handler invocation whose interactive run stagnated has
\* answered without a plan and without a cache write.
C15_Witness ==
  /\ InteractiveInvocationDone
  /\ ~h.response.success
  /\ h.executionResult.error.message = "Task stagnation detected"
  /\ ~CacheWritten
  /\ h.executionPlan = NoPlan

\* C17 as stated: a run that escalates because of stagnation reports
\* metadata.stagnationDetected = true.
C17_StagnationReported ==
  StagnationFired(ag) => ag.result.stagnationDetected

\* C16 as stated: the replay of a trace-promoted plan, every step of which
\* ran as in the interactive run, returns extractedData with the keys of the
\* interactive run the plan was promoted from.
C16_ReplayKeepsKeys ==
  (h.pc = "replay" /\ ex.pc = "returned" /\ ex.plan = SeedPlan
     /\ ex.result.stepsCompleted = ex.result.stepsTotal)
    => ex.result.extractedData = CollectData(SeedSteps)

(***************************************************************************)
(* Regeneration and caching in handler.                                    *)
(***************************************************************************)
GeneratorCalls == {"generatePlan", "generatePlan:regenerate"}

ReplayCalls == {"executePlan:cached", "executePlan", "executePlan:regenerated"}

CountCalls(S) == Cardinality({i \in 1..Len(h.calls) : h.calls[i] \in S})

\* C18 as stated: in an invocation whose replay of the cached plan failed,
\* the plan generator is called at most once and at most one further replay
\* is run.
C18_OneRegenerationPass ==
  h.replayStatus \in {"failed", "error"}
    => CountCalls(GeneratorCalls) <= 1 /\ CountCalls(ReplayCalls) <= 2

\* C19 as stated: when regeneration is triggered, the plan generator is
\* called with the text of the page on which the replay failed.
C19_RegeneratesWithPageText ==
  "generatePlan:regenerate" \in Calls => h.pageContent = "pageText"

\* C20 as stated: while no execution of the invocation has succeeded, no
\* plan has been written to the cache; in particular a generated plan is not
\* in the cache while its first execution is still to return.
C20_CachedAfterSuccess ==
  (h.pc = "execute" /\ ex.pc # "returned" /\ h.executionResult.status # "success")
    => "cachePlan" \notin Calls

(***************************************************************************)
(* Modes and responses of handler.                                         *)
(***************************************************************************)
Done == h.pc = "done"

BrowserCalls == ReplayCalls \cup {"executeInteractively"}

\* The write of the regenerated plan to the cache has failed.
RegeneratedWriteFailed ==
  \E k \in 1..(Len(h.calls) - 1) :
    h.calls[k] = "executePlan:regenerated" /\ h.calls[k + 1] = "cachePlan:error"

\* The plans made during the current invocation.
MadeNow == {FreshId(h.inv, 1), FreshId(h.inv, 2)}

PlanOnlyEvent == h.event.options.planOnly /\ ~h.event.options.executionOnly

BothModesEvent == h.event.options.planOnly /\ h.event.options.executionOnly

\* C21 as stated: when the write of the regenerated plan to the cache fails
\* after a successful regeneration, the invocation does not answer as if
\* nothing had happened: the failure shows in the response.
C21_RefreshFailureSurfaced ==
  (Done /\ RegeneratedWriteFailed)
    => (h.response.statusCode # 200 \/ h.response.code # "none")

\* C22 as stated: in the traditional response metrics.cacheHit is false when
\* the plan whose result is returned was generated during the invocation.
C22_CacheHitTellsOrigin ==
  (Done /\ h.response.mode = "traditional" /\ h.executionPlan.id \in MadeNow)
    => ~h.response.cacheHit

\* C23 as stated: an invocation with options.planOnly executes no browser
\* action and ends with a plan_only response carrying the planId of a
\* generated plan.
C23_PlanOnlyNeverExecutes ==
  (h.inv >= 1 /\ PlanOnlyEvent)
    => /\ Calls \cap BrowserCalls = {}
       /\ Done => (h.response.mode = "plan_only" /\ "generatePlan" \in Calls
                     /\ h.response.planId \in MadeNow)

\* C24 as stated: an input with planOnly and executionOnly both set is
\* rejected before any cache lookup, plan generation or browser action.
C24_BothModesRejected ==
  (h.inv >= 1 /\ BothModesEvent)
    => (Done /\ h.response.code = "INVALID_OPTIONS" /\ h.calls = <<>>)

\* C25 as stated: an invalid TaskInput, and planOnly together with
\* executionOnly, are answered with status code 400; execution-only with an
\* unknown planId with 404.
C25_ValidationIs400 ==
  /\ (Done /\ (~ValidTaskInput(h.event) \/ BothModesEvent))
       => h.response.statusCode = 400
  /\ (Done /\ h.event.options.executionOnly /\ ~h.event.options.planOnly
         /\ h.event.options.planId = UnknownPlanId)
       => h.response.statusCode = 404

\* C26 as stated: in mode auto an invocation whose interactive run did not
\* succeed goes on to plan mode instead of answering with the escalation.
C26_AutoFallsBackToPlan ==
  (Done /\ h.event.options.executionMode = "auto"
     /\ "executeInteractively" \in Calls)
    => ~(h.response.mode = "interactive" /\ ~h.response.success)

\* C27 as stated: an executionOnly call with the planId that the preceding
\* planOnly call returned replays the plan of that id without any plan
\* generation.
C27_PlanIdRoundTrip ==
  (Done /\ h.prevPlanOnly /\ h.prevPlanId # "none"
     /\ h.event.options.executionOnly /\ ~h.event.options.planOnly
     /\ h.event.options.planId = h.prevPlanId)
    => /\ Calls \cap GeneratorCalls = {}
       /\ "executeInteractively" \notin Calls
       /\ h.response.planId = h.prevPlanId

(***************************************************************************)
(* The plan cache under concurrent invocations.                            *)
(***************************************************************************)
\* Client i has returned from a get that began after an undisturbed put of
\* the plan expect, within its TTL, and that no database error has cut
\* short.
GetAfterPut(i) ==
  /\ entry.kind = "cache"
  /\ cl.c[i].op = "get"
  /\ cl.c[i].pc = "idle"
  /\ cl.c[i].result # "error"
  /\ cl.c[i].expect # NoPlan

\* What a backend hands back for a plan p it has stored: the local map the
\* plan itself, the database the plan with metadata.createdAt as a string.
AsRead(p) ==
  IF cache.useLocalCache THEN p ELSE [p EXCEPT !.createdAt = "string"]

C29_HitsCounted ==
  (entry.kind = "cache" /\ ~cache.useLocalCache /\ ~cl.invalidated) =>
    /\ HitCountOf(cache, CacheSig) = cl.hits
    /\ cl.hits > 0 =>
         /\ GenerateCacheKey(CacheSig) \in DOMAIN cache.entries
         /\ cache.entries[GenerateCacheKey(CacheSig)].lastUsed >= cl.lastHitAt

\* C29 witness: a hit whose update ran after the update of a concurrent hit
\* that had read the same count.
C29_Witness ==
  /\ entry.kind = "cache"
  /\ ~cache.useLocalCache
  /\ ~cl.invalidated
  /\ \E i \in 1..MaxClients :
       /\ cl.c[i].result = "hit"
       /\ cl.c[i].hitAfter = cl.c[i].hitBefore + 2

\* C29 (as stated): every get that returns a plan leaves the entry's
\* hitCount higher than it found it.
C29_EveryHitIncrements ==
  \A i \in 1..MaxClients :
    (entry.kind = "cache" /\ cl.c[i].op = "get" /\ cl.c[i].result = "hit")
      => cl.c[i].hitAfter > cl.c[i].hitBefore

\* C30: at every moment every cache entry belongs to one taskSignature whose
\* plan row is the one row the entry's planId names, and the local map holds
\* under a signature a plan of that signature; rows and entries are keyed by
\* signature, so there is at most one of each, in any interleaving of the
\* statements of put, get and invalidate.
C30_EntryRefersToPlanRow ==
  /\ \A sig \in DOMAIN cache.local : cache.local[sig].taskSignature = sig
  /\ \A key \in DOMAIN cache.entries :
       \E sig \in DOMAIN cache.plans :
         /\ key = GenerateCacheKey(sig)
         /\ cache.plans[sig].plan.taskSignature = sig
         /\ JoinedPlans(cache, cache.entries[key].planId) = {sig}

\* C30 witness: two puts of different plans whose statements interleaved
\* have both returned, and the entry is there.
C30_Witness ==
  /\ entry.kind = "cache"
  /\ ~cache.useLocalCache
  /\ cl.interleaved
  /\ \A i \in 1..MaxClients :
       cl.c[i].op = "put" /\ cl.c[i].pc = "idle" /\ cl.c[i].result = "ok"
  /\ GenerateCacheKey(CacheSig) \in DOMAIN cache.entries
  /\ cache.plans[CacheSig].version >= 2

(***************************************************************************)
(* The two cache backends side by side.                                    *)
(***************************************************************************)
\* C31 (as stated, in its part on ids and outcomes): after any sequence of
\* put, get, getById, invalidate and refresh calls within the TTL in which
\* no database statement failed, the call just made returned on both
\* backends the same plan id, a hit on both or a miss on both, and on a hit
\* plans of the same id.
C31_BackendsAgree ==
  (entry.kind = "twin" /\ twin.calls > 0 /\ ~twin.failed) =>
    /\ twin.outDb.id = twin.outLocal.id
    /\ twin.outDb.plan.id = twin.outLocal.plan.id

(***************************************************************************)
(* Task signatures.                                                        *)
(***************************************************************************)
\* The two spellings differ at most in the capitals of the instruction and
\* the blanks around it.
SameUpToCaseAndTrim ==
  /\ [entry.task.instruction EXCEPT !.caps = FALSE, !.pad = FALSE]
       = [entry.task2.instruction EXCEPT !.caps = FALSE, !.pad = FALSE]
  /\ entry.task.url = entry.task2.url

\* The two spellings differ at most in the trailing slash of the URL.
SameUpToSlash ==
  /\ entry.task.instruction = entry.task2.instruction
  /\ [entry.task.url EXCEPT !.slash = FALSE]
       = [entry.task2.url EXCEPT !.slash = FALSE]

\* C32 (as amended): two inputs that differ only in the capitalization of
\* the instruction and the blanks around it get the same signature from each
\* of the three signature functions, and the plan cached for one is hit by
\* handler's lookup for the other; a difference in runs of inner blanks also
\* leaves handler's and PlanGenerator's signatures the same.
C32_CaseAndTrimInvariant ==
  (entry.kind = "signature" /\ sg.pc # "new") =>
    /\ SameUpToCaseAndTrim =>
         /\ sg.of1 = sg.of2
         /\ sg.pc = "looked" => sg.hit
    /\ ([entry.task.instruction EXCEPT !.caps = FALSE, !.pad = FALSE,
                                        !.wide = FALSE]
          = [entry.task2.instruction EXCEPT !.caps = FALSE, !.pad = FALSE,
                                            !.wide = FALSE]
        /\ entry.task.url = entry.task2.url) =>
         /\ sg.of1.agent = sg.of2.agent
         /\ sg.of1.sha256 = sg.of2.sha256

\* C32 witness: a plan cached for an instruction is hit by the lookup for the
\* same instruction in capitals with blanks around it.
C32_Witness ==
  /\ entry.kind = "signature"
  /\ sg.pc = "looked"
  /\ sg.hit
  /\ SameUpToCaseAndTrim
  /\ ~entry.task.instruction.caps /\ ~entry.task.instruction.pad
  /\ entry.task2.instruction.caps /\ entry.task2.instruction.pad

\* C32 (as stated, in its part on the URL): two inputs that differ only in
\* the trailing slash of the URL path get the same signature for caching.
C32_SlashInvariant ==
  (entry.kind = "signature" /\ sg.pc # "new" /\ SameUpToSlash) =>
    /\ sg.of1.agent = sg.of2.agent
    /\ sg.of1.sha256 = sg.of2.sha256

(***************************************************************************)
(* ChangeDetector.                                                         *)
(***************************************************************************)
FieldSet(r) == {r.changedFields[i] : i \in 1..Len(r.changedFields)}

\* C35: for all JSON values a and b, hasChanged(a,b).changedFields and
\* hasChanged(b,a).changedFields are the same set of field paths.
C35_ChangedFieldsSymmetric ==
  (entry.kind = "detector" /\ cd.pc = "compared") =>
    FieldSet(cd.forth) = FieldSet(cd.back)

\* C35 witness: two values that differ in a key only one of them has and in
\* a nested field, compared both ways, with the paths listed in different
\* orders.
C35_Witness ==
  /\ entry.kind = "detector"
  /\ cd.pc = "compared"
  /\ Len(cd.forth.changedFields) >= 2
  /\ cd.forth.changedFields # cd.back.changedFields
  /\ ObjectKeys(entry.previous) # ObjectKeys(entry.current)

(***************************************************************************)
(* Monitoring samples.                                                     *)
(***************************************************************************)
\* C33 (as stated, for the modes other than interactive): an invocation that
\* answers from the code below the mode branches (plan mode, which a cached
\* replay falls through to) with status success, non-empty extractedData and
\* a taskId has appended a MonitoringSample.
C33_SampleInEveryMode ==
  (Done /\ h.response.mode = "traditional"
     /\ h.executionResult.status = "success"
     /\ h.executionResult.extractedData # {}
     /\ h.taskInput.taskId # "none")
    => h.sampled

\* C34 (as stated): the change detection of an execution compares its data
\* with the sample of an earlier execution of the taskId, never with the
\* sample written for the execution itself; without an earlier sample it is a
\* first execution.
C34_BaselineIsPriorSample ==
  (Done /\ h.monitoring.ran) =>
    /\ h.monitoring.baseline # h.stored
    /\ Len(mon) = 1 => h.monitoring.isFirstExecution

(***************************************************************************)
(* Input validation.                                                       *)
(***************************************************************************)
\* C36 (as stated): every option the caller supplies (executionMode,
\* planOnly, executionOnly, planId, forceNewPlan) reaches mode routing with
\* the value the caller supplied.
C36_OptionsReachRouting ==
  (h.pc # "idle" /\ ValidTaskInput(h.event)) =>
    h.taskInput.options = h.event.options

(***************************************************************************)
(* One execution per invocation; the logs of a result.                     *)
(***************************************************************************)
\* C37 (as stated): apart from the regeneration replay, an invocation runs
\* executePlan at most once and stores at most one execution result.
C37_OnePlanExecution ==
  /\ CountCalls({"executePlan:cached", "executePlan"}) <= 1
  /\ CountCalls({"storeExecutionResult"}) <= 1

\* C38 (as stated): the logs of the result that the first execution of an
\* invocation has returned do not change while the regenerated plan runs on
\* the same BrowserExecutor.
C38_ReturnedLogsStable ==
  [][(h.pc = "reexecute" /\ h.executionResult.logs # 0)
       => logs'[h.executionResult.logs] = logs[h.executionResult.logs]]_vars

(***************************************************************************)
(* Trace-promoted plans.                                                   *)
(***************************************************************************)
\* C39 (as stated): every step of a trace-promoted plan corresponds to an
\* interactive step whose action executed successfully.
C39_PromotedStepsSucceeded ==
  (ag.pc = "returned" /\ ag.result.generatedPlan # NoPlan) =>
    \A i \in 1..Len(ag.result.generatedPlan.steps) : ag.result.steps[i].ok

\* C40 (as stated): the replay of a trace-promoted plan in which every step
\* executes at the first attempt ends with status success.
C40_PromotedReplaySucceeds ==
  (/\ h.pc = "replay"
   /\ ex.pc = "returned"
   /\ ex.plan.successCriteria = <<"All steps executed successfully">>
   /\ ex.result.stepsCompleted = ex.result.stepsTotal
   /\ ex.result.retryCount = 0
   /\ ex.result.error.message # "Plan execution failed")
    => ex.result.status = "success"

====
